---------------------------- MODULE Spec2Model ----------------------------
(***************************************************************************)
(* A model of the core of the cratery registry:                            *)
(*   - the publish envelope decoder and the metadata checks (objects.rs),  *)
(*   - the access checks of the application layer (app/mod.rs),            *)
(*   - the SigV4 canonical request of the S3 client (utils/s3/signing.rs). *)
(*                                                                         *)
(* Strings are sequences of Unicode scalar values (a Rust char), byte      *)
(* buffers are sequences of numbers in 0..255.  A Rust Result is a record  *)
(* with a tag "Ok" or "Err"; a call that unwinds has the tag "panic".      *)
(***************************************************************************)
EXTENDS Integers, Sequences, FiniteSets, TLC

VARIABLES
    buffer,         \* the payload handed to CrateUploadData::new
    upload,         \* the outcome of CrateUploadData::new on buffer
    metadata,       \* a CrateMetadata value
    content,        \* the bytes of the .crate archive of an upload
    validation,     \* the outcome of CrateMetadata::validate on metadata
    index_data,     \* the outcome of CrateUploadData::build_index_data
    RegistryUser,   \* the RegistryUser table: a sequence of rows, by id
    access,         \* the last access check and its outcome
    request,        \* the arguments of a call of sign_request
    canonical,      \* the outcome of signing_get_canonical_request_hash in it
    params,         \* the S3Params of a call of sign_request
    signed,         \* the outcome of sign_request on params and request
    uri,            \* a string handed to encode_uri
    encoded,        \* the outcome of encode_uri on uri
    pc,             \* the step each client of the publish pipeline is at
    op,             \* the operation each client has asked for
    mutex,          \* the holder of the Index mutex, 0 when it is free
    index,          \* the lines of the crate files of the Index Repository
    commits,        \* the number of commits of the Index Repository
    blobs,          \* the objects of the Blob Store, by key
    CrateVersion,   \* the committed rows of the CrateVersion table
    pending,        \* the write of each client's open transaction
    outcome,        \* the response each client got last
    before,         \* the stores as each client found them under the mutex
    ops,            \* the number of operations begun
    env,            \* the environment variables of the process
    rng,            \* the random generator of the process
    configuration,  \* the outcome of Configuration::from_env
    files           \* the outcome of Configuration::write_auth_config

envelopeVars == <<buffer, upload>>
metadataVars == <<metadata, content, validation, index_data>>
accessVars   == <<RegistryUser, access>>
signingVars  == <<request, canonical, params, signed>>
uriVars      == <<uri, encoded>>
publishVars  == <<pc, op, mutex, index, commits, blobs, CrateVersion, pending,
                  outcome, before, ops>>
configVars   == <<env, rng, configuration, files>>
vars == <<buffer, upload, metadata, content, validation, index_data,
          RegistryUser, access, request, canonical, params, signed, uri, encoded,
          pc, op, mutex, index, commits, blobs, CrateVersion, pending,
          outcome, before, ops, env, rng, configuration, files>>

-----------------------------------------------------------------------------
(* Sequences and strings                                                   *)

\* The sequences over S of length at most n.
SeqsUpTo(S, n) == UNION {[1..k -> S] : k \in 0..n}

\* n copies of x.
Repeat(x, n) == [i \in 1..n |-> x]

\* The concatenation of the sequences of ss, with sep between them
\* (Rust's join).
RECURSIVE Join(_, _)
Join(ss, sep) ==
    IF ss = <<>> THEN <<>>
    ELSE IF Len(ss) = 1 THEN ss[1]
    ELSE ss[1] \o sep \o Join(Tail(ss), sep)

\* The order of str::cmp and String::cmp: lexicographic on the bytes, a
\* proper prefix first.  Used on ASCII strings only, where a char is a byte.
RECURSIVE StrLess(_, _)
StrLess(a, b) ==
    IF b = <<>> THEN FALSE
    ELSE IF a = <<>> THEN TRUE
    ELSE IF a[1] # b[1] THEN a[1] < b[1]
    ELSE StrLess(Tail(a), Tail(b))

StrLeq(a, b) == a = b \/ StrLess(a, b)

-----------------------------------------------------------------------------
(* The idle values of the variables a specification does not use           *)

NoMetadataDoc == [json |-> <<>>]
NoMetadata ==
    [name |-> <<>>, vers |-> "", deps |-> <<>>, features |-> {}, categories |-> <<>>,
     repository |-> "", badges |-> {}, links |-> <<>>]
NoValidation == [tag |-> "none", kind |-> "", details |-> "", warnings |-> <<>>]
NoIndexData == [tag |-> "none"]
NoAccess == [op |-> "none", principal |-> "", uid |-> 0,
             result |-> [tag |-> "none", error |-> "", id |-> 0]]
NoRequest ==
    [method |-> <<>>, path |-> <<>>, query |-> <<>>, headers |-> <<>>,
     payload_hash |-> <<>>, now |-> <<>>]
NoCanonical == [tag |-> "none", canonical_request |-> <<>>]
NoParams == [region |-> <<>>, service |-> <<>>, access_key |-> <<>>, secret_key |-> <<>>]
NoSigned ==
    [tag |-> "none", headers |-> <<>>, string_to_sign |-> <<>>,
     signing_key |-> <<>>, signature |-> <<>>]
NoEncoded == [tag |-> "none", s |-> <<>>]
NoRng == [seed |-> 0, pos |-> 0]
NoConfiguration == [tag |-> "none", var_name |-> ""]
NoFiles == [tag |-> "none"]
NoUpload == [tag |-> "none", error |-> "", metadata |-> NoMetadataDoc, content |-> <<>>]

-----------------------------------------------------------------------------
(* objects.rs: CrateUploadData::new, the decoder of the publish envelope   *)

\* Cursor::read_u32::<LittleEndian> at position pos of buf: four bytes, the
\* least significant first; an io error (UnexpectedEof) when fewer than four
\* bytes are left.  The cursor moves only on success.
read_u32_le(buf, pos) ==
    IF Len(buf) - pos < 4
    THEN [tag |-> "Err", value |-> 0]
    ELSE [tag |-> "Ok",
          value |-> buf[pos + 1] + 256 * buf[pos + 2] + 65536 * buf[pos + 3]
                    + 16777216 * buf[pos + 4]]

\* serde_json::from_slice::<CrateMetadata>.  The parser is a library; the
\* model keeps what the decoder depends on: the outcome is a function of the
\* slice alone, some slices are documents and some are not.  Documents are
\* written over the bytes '{' (123), '"' (34) and '}' (125); a slice stands for
\* a metadata document when it is one pair of braces around brace-free text.
\* The parsed value is identified by the document it was parsed from.
serde_json_from_slice(slice) ==
    IF /\ Len(slice) >= 2
       /\ slice[1] = 123
       /\ slice[Len(slice)] = 125
       /\ \A i \in 2..(Len(slice) - 1) : slice[i] \notin {123, 125}
    THEN [tag |-> "Ok", value |-> [json |-> slice]]
    ELSE [tag |-> "Err", value |-> NoMetadataDoc]

\* A variant of metadata_slice that starts one byte early, inside the length
\* field.
metadata_slice_from_3(buf, metadata_length) ==
    SubSeq(buf, 4, 4 + metadata_length)

\* &buffer[4..((4 + metadata_length) as usize)], evaluated when the range is
\* inside the buffer.
metadata_slice(buf, metadata_length) ==
    SubSeq(buf, 5, 4 + metadata_length)

\* CrateUploadData::new(buffer).  The steps are those of the source, in order:
\*   read_u32 (?), the slice of the metadata (panics when its end is past the
\*   buffer), serde_json::from_slice (?), set_position and read_u32 (?),
\*   vec![0; content_length], copy_from_slice of the rest of the buffer
\*   (panics unless the rest has exactly content_length bytes).
\* 4 + metadata_length is computed in u64 from a u32 and cannot wrap; usize is
\* taken to be 64 bits wide.
CrateUploadData_new(buf) ==
    LET first == read_u32_le(buf, 0) IN
    IF first.tag = "Err"
    THEN [NoUpload EXCEPT !.tag = "Err", !.error = "io"]
    ELSE
    LET metadata_length == first.value IN
    IF 4 + metadata_length > Len(buf)
    THEN [NoUpload EXCEPT !.tag = "panic"]
    ELSE
    LET parsed == serde_json_from_slice(metadata_slice(buf, metadata_length)) IN
    IF parsed.tag = "Err"
    THEN [NoUpload EXCEPT !.tag = "Err", !.error = "json"]
    ELSE
    LET second == read_u32_le(buf, 4 + metadata_length) IN
    IF second.tag = "Err"
    THEN [NoUpload EXCEPT !.tag = "Err", !.error = "io"]
    ELSE
    LET content_length == second.value
        rest == SubSeq(buf, 4 + metadata_length + 4 + 1, Len(buf))
    IN  IF Len(rest) # content_length
        THEN [NoUpload EXCEPT !.tag = "panic"]
        ELSE [tag |-> "Ok", error |-> "", metadata |-> parsed.value, content |-> rest]

(* The payloads of the model *)

\* The longest metadata text and the longest archive of a payload.
MaxMeta == 2
MaxBody == 2

\* What a client writes for a u32 length.
u32_le(n) ==
    <<n % 256, (n \div 256) % 256, (n \div 65536) % 256, (n \div 16777216) % 256>>

\* Declared lengths: the short ones, and two that use the higher bytes.
DeclaredLengths ==
    (0..((IF MaxMeta > MaxBody THEN MaxMeta ELSE MaxBody) + 1)) \cup {257, 16777216}
MetadataTexts == SeqsUpTo({123, 125}, MaxMeta)
ArchiveTexts == SeqsUpTo({7, 8}, MaxBody)

\* The first n bytes of s.
Prefix(s, n) == SubSeq(s, 1, IF n < Len(s) THEN n ELSE Len(s))

\* Every payload is a frame (length, text, length, text), the lengths right or
\* wrong, cut anywhere.
Payloads ==
    {Prefix(f, n) :
        f \in {u32_le(a) \o m \o u32_le(b) \o c :
                 a \in DeclaredLengths, m \in MetadataTexts,
                 b \in DeclaredLengths, c \in ArchiveTexts},
        n \in 0..(8 + MaxMeta + MaxBody)}

\* A publish request has arrived with its body.
InitEnvelope ==
    /\ buffer \in Payloads
    /\ upload = NoUpload
    /\ metadata = NoMetadata
    /\ content = <<>>
    /\ validation = NoValidation
    /\ index_data = NoIndexData
    /\ RegistryUser = <<>>
    /\ access = NoAccess
    /\ request = NoRequest
    /\ canonical = NoCanonical
    /\ params = NoParams
    /\ signed = NoSigned
    /\ uri = <<>>
    /\ encoded = NoEncoded
    /\ pc = <<>>
    /\ op = <<>>
    /\ mutex = 0
    /\ index = <<>>
    /\ commits = 0
    /\ blobs = <<>>
    /\ CrateVersion = {}
    /\ pending = <<>>
    /\ outcome = <<>>
    /\ before = <<>>
    /\ ops = 0
    /\ env = <<>>
    /\ rng = NoRng
    /\ configuration = NoConfiguration
    /\ files = NoFiles

\* The handler decodes the body.
Decode ==
    /\ upload.tag = "none"
    /\ upload' = CrateUploadData_new(buffer)
    /\ UNCHANGED <<buffer, metadataVars, accessVars, signingVars, uriVars, publishVars, configVars>>

-----------------------------------------------------------------------------
(* objects.rs: CrateMetadata::validate and CrateUploadData::build_index_data *)

\* Option<T>: None is the empty sequence, Some(x) is <<x>>.
None == <<>>
Some(x) == <<x>>

\* char::is_ascii_alphabetic, char::is_ascii_digit, char::is_ascii_alphanumeric
is_ascii_alphabetic(c) == (c >= 65 /\ c <= 90) \/ (c >= 97 /\ c <= 122)
is_ascii_digit(c) == c >= 48 /\ c <= 57
is_ascii_alphanumeric(c) == is_ascii_alphabetic(c) \/ is_ascii_digit(c)

\* The number of bytes of the UTF-8 encoding of the scalar value c.
len_utf8(c) == IF c < 128 THEN 1 ELSE IF c < 2048 THEN 2 ELSE IF c < 65536 THEN 3 ELSE 4

\* str::len: the length of a string in bytes.
RECURSIVE str_len(_)
str_len(s) == IF s = <<>> THEN 0 ELSE len_utf8(s[1]) + str_len(Tail(s))

\* The longest name validate_name lets through, in bytes.
MaxNameLen == 64

\* validation_error(details): specialize(error_invalid_request(), details)
validation_error(details) ==
    [tag |-> "Err", kind |-> "invalid-request", details |-> details]

ValidationOk == [tag |-> "Ok", kind |-> "", details |-> ""]

\* The loop of validate_name from the char of index i (counted from 1) on.
RECURSIVE validate_name_chars(_, _)
validate_name_chars(name, i) ==
    IF i > Len(name) THEN ValidationOk
    ELSE IF i = 1 /\ ~is_ascii_alphabetic(name[i])
    THEN validation_error("Name must start with an ASCII letter")
    ELSE IF ~is_ascii_alphanumeric(name[i]) /\ name[i] # 45 /\ name[i] # 95
    THEN validation_error("Name must only contain alphanumeric, -, _")
    ELSE validate_name_chars(name, i + 1)

\* A variant of validate_name whose length test is on 65 bytes and more.
validate_name_off_by_one(name) ==
    IF name = <<>> THEN validation_error("Name must not be empty")
    ELSE IF str_len(name) > MaxNameLen + 1
    THEN validation_error("Name must not exceed 64 characters")
    ELSE validate_name_chars(name, 1)

\* CrateMetadata::validate_name
validate_name(name) ==
    IF name = <<>> THEN validation_error("Name must not be empty")
    ELSE IF str_len(name) > MaxNameLen
    THEN validation_error("Name must not exceed 64 characters")
    ELSE validate_name_chars(name, 1)

\* A variant of validate_kind that looks at the first dependency only.
validate_kind_first_only(deps) ==
    IF deps = <<>> THEN ValidationOk
    ELSE IF deps[1].kind # "dev" /\ deps[1].kind # "build" /\ deps[1].kind # "normal"
    THEN validation_error("kind for dependency must be either [normal, dev, build]")
    ELSE ValidationOk

\* CrateMetadata::validate_kind
RECURSIVE validate_kind(_)
validate_kind(deps) ==
    IF deps = <<>> THEN ValidationOk
    ELSE IF deps[1].kind # "dev" /\ deps[1].kind # "build" /\ deps[1].kind # "normal"
    THEN validation_error("kind for dependency must be either [normal, dev, build]")
    ELSE validate_kind(Tail(deps))

\* CrateUploadWarnings::default(), the warnings of CrateUploadResult::default()
CrateUploadWarnings_default ==
    [invalid_categories |-> <<>>, invalid_badges |-> <<>>, other |-> <<>>]

\* A variant of validate that also refuses a vers that is not MAJOR.MINOR.PATCH
\* in digits.
validate_checking_vers(md) ==
    LET named == validate_name(md.name) IN
    IF named.tag = "Err"
    THEN [tag |-> "Err", kind |-> named.kind, details |-> named.details, warnings |-> None]
    ELSE
    LET kinds == validate_kind(md.deps) IN
    IF kinds.tag = "Err"
    THEN [tag |-> "Err", kind |-> kinds.kind, details |-> kinds.details, warnings |-> None]
    ELSE IF md.vers \notin {"0.1.0", "0.2.0", "1.0.0"}
    THEN [tag |-> "Err", kind |-> "invalid", details |-> "vers must be a semantic version",
          warnings |-> None]
    ELSE [tag |-> "Ok", kind |-> "", details |-> "",
          warnings |-> Some(CrateUploadWarnings_default)]

\* CrateMetadata::validate: the two checks in order, `?` after each, then
\* Ok(CrateUploadResult::default()).  An Err carries the ApiError and no
\* CrateUploadResult; an Ok carries the CrateUploadResult and its warnings.
validate(md) ==
    LET named == validate_name(md.name) IN
    IF named.tag = "Err"
    THEN [tag |-> "Err", kind |-> named.kind, details |-> named.details, warnings |-> None]
    ELSE
    LET kinds == validate_kind(md.deps) IN
    IF kinds.tag = "Err"
    THEN [tag |-> "Err", kind |-> kinds.kind, details |-> kinds.details, warnings |-> None]
    ELSE [tag |-> "Ok", kind |-> "", details |-> "",
          warnings |-> Some(CrateUploadWarnings_default)]

\* A variant of DependencyIndex::from that takes `package` from the registry
\* and `registry` from the explicit name.
DependencyIndex_from_swapped(dep) ==
    [name |-> dep.name,
     req |-> dep.version_req,
     features |-> dep.features,
     optional |-> dep.optional,
     default_features |-> dep.default_features,
     target |-> dep.target,
     kind |-> dep.kind,
     registry |-> dep.explicit_name_in_toml,
     package |-> dep.registry]

\* impl From<&Dependency> for DependencyIndex
DependencyIndex_from(dep) ==
    [name |-> dep.name,
     req |-> dep.version_req,
     features |-> dep.features,
     optional |-> dep.optional,
     default_features |-> dep.default_features,
     target |-> dep.target,
     kind |-> dep.kind,
     registry |-> dep.registry,
     package |-> dep.explicit_name_in_toml]

\* sha256(buffer): HEXLOWER.encode of the SHA-256 digest of the bytes.  The
\* digest is not computed: it is the term that names the function, the
\* encoding and the bytes hashed, so that two digests are equal exactly when
\* they are digests of the same bytes (no collisions).
sha256(bytes) == [digest |-> "SHA-256", encoding |-> "hex-lower", of |-> bytes]

\* CrateUploadData::build_index_data, of the upload data (md, archive)
build_index_data(md, archive) ==
    LET cksum == sha256(archive) IN
    [name |-> md.name,
     vers |-> md.vers,
     deps |-> [i \in 1..Len(md.deps) |-> DependencyIndex_from(md.deps[i])],
     cksum |-> cksum,
     features |-> md.features,
     yanked |-> FALSE,
     links |-> md.links]

(* The metadata of the model *)

\* The longest list of dependencies, and the longest free part of a name.
MaxDeps == 2
MaxHead == 2

\* Dependencies: the three kinds, renamed or not, and three kinds that are
\* not kinds: another case, the empty string, a trailing blank.
Dependencies ==
    {[name |-> "serde", version_req |-> "^1.0", features |-> <<"derive">>,
      optional |-> FALSE, default_features |-> TRUE, target |-> None,
      kind |-> "normal", registry |-> None, explicit_name_in_toml |-> None],
     [name |-> "rand", version_req |-> "0.8", features |-> <<>>,
      optional |-> TRUE, default_features |-> FALSE, target |-> Some("cfg(windows)"),
      kind |-> "dev", registry |-> Some("https://github.com/rust-lang/crates.io-index"),
      explicit_name_in_toml |-> Some("random")],
     [name |-> "cc", version_req |-> "=1.0.83", features |-> <<>>,
      optional |-> FALSE, default_features |-> TRUE, target |-> None,
      kind |-> "build", registry |-> None, explicit_name_in_toml |-> Some("cc1")],
     [name |-> "log", version_req |-> "*", features |-> <<>>,
      optional |-> FALSE, default_features |-> TRUE, target |-> None,
      kind |-> "Dev", registry |-> None, explicit_name_in_toml |-> None],
     [name |-> "libc", version_req |-> "0.2", features |-> <<>>,
      optional |-> FALSE, default_features |-> TRUE, target |-> None,
      kind |-> "", registry |-> None, explicit_name_in_toml |-> None],
     [name |-> "time", version_req |-> "0.3", features |-> <<>>,
      optional |-> FALSE, default_features |-> TRUE, target |-> None,
      kind |-> "normal ", registry |-> None, explicit_name_in_toml |-> None]}

\* Names: a free part over a Z 1 - _ ! and U+00E9 (two bytes in UTF-8),
\* followed by no a, or by as many as bring the length to the limit.
NameChars == {97, 90, 49, 45, 95, 33, 233}
Names ==
    {head \o Repeat(97, pad) :
        head \in SeqsUpTo(NameChars, MaxHead),
        pad \in {0, MaxNameLen - 2, MaxNameLen - 1}}

\* The fields validate and build_index_data do not both use, in two shapes.
OtherFields ==
    {[vers |-> "0.1.0", features |-> {}, links |-> None,
      categories |-> <<>>, badges |-> {}, repository |-> ""],
     [vers |-> "not-a-version", features |-> {<<"std", <<"serde/std">> >>},
      links |-> Some("z"), categories |-> <<"no-such-category">>,
      badges |-> {"no-such-badge"}, repository |-> "git@host:crate"]}

CrateMetadata(name, deps, other) ==
    [name |-> name, vers |-> other.vers, deps |-> deps, features |-> other.features,
     categories |-> other.categories, repository |-> other.repository,
     badges |-> other.badges, links |-> other.links]

\* Every name with a few lists of dependencies, and every list of
\* dependencies with a few names.
Metadatas ==
    {CrateMetadata(n, d, o) :
        n \in Names,
        d \in {dd \in SeqsUpTo(Dependencies, 1) : \A i \in 1..Len(dd) : dd[i].kind \in {"normal", "Dev"}},
        o \in OtherFields}
    \cup
    {CrateMetadata(n, d, o) :
        n \in {<<102, 111, 111>>, <<49, 102, 111, 111>>},
        d \in SeqsUpTo(Dependencies, MaxDeps),
        o \in OtherFields}

InitMetadata ==
    /\ metadata \in Metadatas
    /\ content \in {<<>>, <<104, 101, 108, 108, 111>>, <<104, 101, 108, 108>>}
    /\ validation = NoValidation
    /\ index_data = NoIndexData
    /\ buffer = <<>>
    /\ upload = NoUpload
    /\ RegistryUser = <<>>
    /\ access = NoAccess
    /\ request = NoRequest
    /\ canonical = NoCanonical
    /\ params = NoParams
    /\ signed = NoSigned
    /\ uri = <<>>
    /\ encoded = NoEncoded
    /\ pc = <<>>
    /\ op = <<>>
    /\ mutex = 0
    /\ index = <<>>
    /\ commits = 0
    /\ blobs = <<>>
    /\ CrateVersion = {}
    /\ pending = <<>>
    /\ outcome = <<>>
    /\ before = <<>>
    /\ ops = 0
    /\ env = <<>>
    /\ rng = NoRng
    /\ configuration = NoConfiguration
    /\ files = NoFiles

\* The publish pipeline validates the metadata.
Validate ==
    /\ validation.tag = "none"
    /\ validation' = validate(metadata)
    /\ UNCHANGED <<metadata, content, index_data>>
    /\ UNCHANGED <<envelopeVars, accessVars, signingVars, uriVars, publishVars, configVars>>

\* The publish pipeline builds the index record of the upload.
BuildIndexData ==
    /\ index_data.tag = "none"
    /\ index_data' = [tag |-> "built", record |-> build_index_data(metadata, content)]
    /\ UNCHANGED <<metadata, content, validation>>
    /\ UNCHANGED <<envelopeVars, accessVars, signingVars, uriVars, publishVars, configVars>>

-----------------------------------------------------------------------------
(* app/mod.rs: the access checks of Application                            *)

\* str::split(sep): the pieces of s between the occurrences of the char sep;
\* a string without sep, the empty string too, is one piece.
split(s, sep) ==
    LET at == {i \in 1..Len(s) : s[i] = sep}
        n == Cardinality(at) + 1
        \* the place of the k-th occurrence of sep; 0 and Len(s) + 1 bound s
        Place(k) == IF k = 0 THEN 0
                    ELSE IF k = n THEN Len(s) + 1
                    ELSE CHOOSE i \in at : Cardinality({j \in at : j < i}) = k - 1
    IN  [k \in 1..n |-> SubSeq(s, Place(k - 1) + 1, Place(k) - 1)]

\* char::is_whitespace: the scalar values with the White_Space property.
is_whitespace(c) ==
    \/ (c >= 9 /\ c <= 13)
    \/ c \in {32, 133, 160, 5760, 8232, 8233, 8239, 8287, 12288}
    \/ (c >= 8192 /\ c <= 8202)

RECURSIVE trim_start(_)
trim_start(s) ==
    IF s # <<>> /\ is_whitespace(s[1]) THEN trim_start(Tail(s)) ELSE s

RECURSIVE trim_end(_)
trim_end(s) ==
    IF s # <<>> /\ is_whitespace(s[Len(s)])
    THEN trim_end(SubSeq(s, 1, Len(s) - 1))
    ELSE s

\* str::trim
trim(s) == trim_end(trim_start(s))

\* "admin"
admin == <<97, 100, 109, 105, 110>>

error_unauthorized == [tag |-> "Err", error |-> "unauthorized", id |-> 0]
error_forbidden == [tag |-> "Err", error |-> "forbidden", id |-> 0]

\* fetch_optional: the first row of the table among those the WHERE clause
\* keeps (kept, their positions), if any.  Rows are in the order of their id.
fetch_optional(table, kept) ==
    IF kept = {} THEN None
    ELSE Some(table[CHOOSE i \in kept : \A j \in kept : i <= j])

\* A variant of check_is_user whose query has no isActive = TRUE.
check_is_user_any_row(table, principal) ==
    LET Where(row) == row.email = principal
        maybe_row == fetch_optional(table, {i \in 1..Len(table) : Where(table[i])})
    IN  IF maybe_row = None THEN error_unauthorized
        ELSE [tag |-> "Ok", error |-> "", id |-> maybe_row[1].id]

\* Application::check_is_user(principal):
\*   SELECT id FROM RegistryUser WHERE isActive = TRUE AND email = $1
check_is_user(table, principal) ==
    LET Where(row) == row.isActive = TRUE /\ row.email = principal
        maybe_row == fetch_optional(table, {i \in 1..Len(table) : Where(table[i])})
    IN  IF maybe_row = None THEN error_unauthorized
        ELSE [tag |-> "Ok", error |-> "", id |-> maybe_row[1].id]

\* A variant of get_is_admin that compares the pieces without trimming them.
get_is_admin_untrimmed(table, uid) ==
    LET Where(row) == row.id = uid
        maybe_row == fetch_optional(table, {i \in 1..Len(table) : Where(table[i])})
    IN  IF maybe_row = None THEN [tag |-> "Err", error |-> "forbidden", value |-> FALSE]
        ELSE LET pieces == split(maybe_row[1].roles, 44)
             IN  [tag |-> "Ok", error |-> "",
                  value |-> \E i \in 1..Len(pieces) : pieces[i] = admin]

\* Application::get_is_admin(uid):
\*   SELECT roles FROM RegistryUser WHERE id = $1
\*   roles.split(',').any(|role| role.trim() == "admin")
get_is_admin(table, uid) ==
    LET Where(row) == row.id = uid
        maybe_row == fetch_optional(table, {i \in 1..Len(table) : Where(table[i])})
    IN  IF maybe_row = None THEN [tag |-> "Err", error |-> "forbidden", value |-> FALSE]
        ELSE LET pieces == split(maybe_row[1].roles, 44)
             IN  [tag |-> "Ok", error |-> "",
                  value |-> \E i \in 1..Len(pieces) : trim(pieces[i]) = admin]

\* Application::check_is_admin(uid)
check_is_admin(table, uid) ==
    LET is_admin == get_is_admin(table, uid) IN
    IF is_admin.tag = "Err" THEN [tag |-> "Err", error |-> is_admin.error, id |-> 0]
    ELSE IF is_admin.value THEN [tag |-> "Ok", error |-> "", id |-> 0]
    ELSE error_forbidden

(* The users of the model *)

\* The most rows the table gets.
MaxUsers == 2

Emails == {"alice@example.com", "bob@example.com", "carol@example.com"}

\* The roles strings given to users:
\*   "", "admin", "Admin", "user, admin", "admin ,user", "administrator", "user admin", "\tadmin "
Roles ==
    {<<>>,
     <<97, 100, 109, 105, 110>>,
     <<65, 100, 109, 105, 110>>,
     <<117, 115, 101, 114, 44, 32, 97, 100, 109, 105, 110>>,
     <<97, 100, 109, 105, 110, 32, 44, 117, 115, 101, 114>>,
     <<97, 100, 109, 105, 110, 105, 115, 116, 114, 97, 116, 111, 114>>,
     <<117, 115, 101, 114, 32, 97, 100, 109, 105, 110>>,
     <<9, 97, 100, 109, 105, 110, 32>>}

InitAccess ==
    /\ RegistryUser = <<>>
    /\ access = NoAccess
    /\ buffer = <<>>
    /\ upload = NoUpload
    /\ metadata = NoMetadata
    /\ content = <<>>
    /\ validation = NoValidation
    /\ index_data = NoIndexData
    /\ request = NoRequest
    /\ canonical = NoCanonical
    /\ params = NoParams
    /\ signed = NoSigned
    /\ uri = <<>>
    /\ encoded = NoEncoded
    /\ pc = <<>>
    /\ op = <<>>
    /\ mutex = 0
    /\ index = <<>>
    /\ commits = 0
    /\ blobs = <<>>
    /\ CrateVersion = {}
    /\ pending = <<>>
    /\ outcome = <<>>
    /\ before = <<>>
    /\ ops = 0
    /\ env = <<>>
    /\ rng = NoRng
    /\ configuration = NoConfiguration
    /\ files = NoFiles

\* A first OAuth login creates the user of an email, active, with the next id.
user_upsert_from_oauth ==
    /\ Len(RegistryUser) < MaxUsers
    /\ \E email \in Emails :
         /\ \A i \in 1..Len(RegistryUser) : RegistryUser[i].email # email
         /\ RegistryUser' = Append(RegistryUser,
                [id |-> Len(RegistryUser) + 1, isActive |-> TRUE,
                 email |-> email, roles |-> <<>>])
    /\ access' = NoAccess
    /\ UNCHANGED <<envelopeVars, metadataVars, signingVars, uriVars, publishVars, configVars>>

\* An administrator deactivates or reactivates a user; rows are never deleted.
user_set_active ==
    /\ \E i \in 1..Len(RegistryUser), active \in BOOLEAN :
         /\ RegistryUser[i].isActive # active
         /\ RegistryUser' = [RegistryUser EXCEPT ![i].isActive = active]
    /\ access' = NoAccess
    /\ UNCHANGED <<envelopeVars, metadataVars, signingVars, uriVars, publishVars, configVars>>

\* An administrator sets the roles of a user.
user_set_roles ==
    /\ \E i \in 1..Len(RegistryUser), roles \in Roles :
         /\ RegistryUser[i].roles # roles
         /\ RegistryUser' = [RegistryUser EXCEPT ![i].roles = roles]
    /\ access' = NoAccess
    /\ UNCHANGED <<envelopeVars, metadataVars, signingVars, uriVars, publishVars, configVars>>

\* A request is checked for its user.
CheckIsUser ==
    /\ \E principal \in Emails :
         access' = [op |-> "check_is_user", principal |-> principal, uid |-> 0,
                    result |-> check_is_user(RegistryUser, principal)]
    /\ UNCHANGED <<RegistryUser, envelopeVars, metadataVars, signingVars, uriVars, publishVars, configVars>>

\* A request is checked for the admin role of its user; the uid is any number,
\* the id of a row or not.
CheckIsAdmin ==
    /\ \E uid \in 0..(MaxUsers + 1) :
         access' = [op |-> "check_is_admin", principal |-> "", uid |-> uid,
                    result |-> check_is_admin(RegistryUser, uid)]
    /\ UNCHANGED <<RegistryUser, envelopeVars, metadataVars, signingVars, uriVars, publishVars, configVars>>

-----------------------------------------------------------------------------
(* utils/s3/signing.rs: encode_uri and the canonical request               *)

\* A variant of encode_uri_passthrough without the '~'.
encode_uri_passthrough_no_tilde(c) ==
    is_ascii_alphanumeric(c) \/ c \in {47, 45, 95, 46}

\* encode_uri_passthrough(c): c.is_ascii_alphanumeric() || "/-_.~".contains(c)
encode_uri_passthrough(c) ==
    is_ascii_alphanumeric(c) \/ c \in {47, 45, 95, 46, 126}

\* The char of the hexadecimal digit d, in upper case.
hex_upper(d) == IF d < 10 THEN 48 + d ELSE 55 + d

\* format!("%{value:02X}"), for a value of at most two digits
percent(value) == <<37, hex_upper(value \div 16), hex_upper(value % 16)>>

\* The loop of encode_uri over the chars of input: the buffer it has built
\* when it ends, or the panic of its char above 255.
RECURSIVE encode_uri_loop(_, _)
encode_uri_loop(input, out) ==
    IF input = <<>> THEN [tag |-> "Ok", s |-> out]
    ELSE IF encode_uri_passthrough(input[1])
    THEN encode_uri_loop(Tail(input), Append(out, input[1]))
    ELSE IF input[1] <= 255
    THEN encode_uri_loop(Tail(input), out \o percent(input[1]))
    ELSE [tag |-> "panic", s |-> <<>>]

\* encode_uri(input)
encode_uri(input) ==
    LET must_encode == Cardinality({i \in 1..Len(input) : ~encode_uri_passthrough(input[i])})
    IN  IF must_encode = 0 THEN [tag |-> "Ok", s |-> input]
        ELSE encode_uri_loop(input, <<>>)

\* slice::sort_unstable and sort_unstable_by, as an insertion sort of the
\* elements by their keys, which are strings: keyed is a sequence of
\* [key, item].  The order of elements of equal keys, which the source leaves
\* open, is not used: the model sorts strings by themselves, where equal
\* elements are the same, and headers of distinct names.
RECURSIVE insert_sorted(_, _)
insert_sorted(x, sorted) ==
    IF sorted = <<>> THEN <<x>>
    ELSE IF StrLeq(x.key, sorted[1].key) THEN <<x>> \o sorted
    ELSE <<sorted[1]>> \o insert_sorted(x, Tail(sorted))

RECURSIVE sort_unstable_by_key(_)
sort_unstable_by_key(keyed) ==
    IF keyed = <<>> THEN <<>>
    ELSE insert_sorted(keyed[1], sort_unstable_by_key(Tail(keyed)))

\* char::to_lowercase on the chars of a header name, which are ASCII.
to_lowercase(s) == [i \in 1..Len(s) |-> IF s[i] >= 65 /\ s[i] <= 90 THEN s[i] + 32 ELSE s[i]]

\* HeaderValue::to_str succeeds on visible ASCII, blank and tab only.
to_str_ok(value) == \A i \in 1..Len(value) : (value[i] >= 32 /\ value[i] < 127) \/ value[i] = 9

\* A variant of canonical_headers that keeps the order of the header map.
canonical_headers_unsorted(headers) ==
    [i \in 1..Len(headers) |->
        [name |-> to_lowercase(headers[i].name), value |-> headers[i].value]]

\* The local `headers` of signing_get_canonical_request_hash: the pairs of
\* the header map with lowercased names, sorted by name.
canonical_headers(headers) ==
    LET sorted == sort_unstable_by_key(
            [i \in 1..Len(headers) |->
                [key |-> to_lowercase(headers[i].name),
                 item |-> [name |-> to_lowercase(headers[i].name),
                           value |-> headers[i].value]]])
    IN  [i \in 1..Len(sorted) |-> sorted[i].item]

\* The entry of `parts` for the query: empty without parameters, else the
\* strings "k=v" of the encoded pairs, sorted as strings, joined by '&'.
canonical_query(query) ==
    IF query = <<>> THEN <<>>
    ELSE LET formatted == [i \in 1..Len(query) |->
                        encode_uri(query[i][1]).s \o <<61>> \o encode_uri(query[i][2]).s]
             sorted == sort_unstable_by_key(
                        [i \in 1..Len(query) |-> [key |-> formatted[i], item |-> formatted[i]]])
         IN  Join([i \in 1..Len(sorted) |-> sorted[i].item], <<38>>)

\* signing_get_canonical_request_hash(method, path, query, headers,
\* payload_hash): the canonical request it hashes, or the panic of an unwrap
\* or of encode_uri.  The hash returned is sha256 of the canonical request.
signing_get_canonical_request_hash(method, path, query, headers, payload_hash) ==
    IF \E i \in 1..Len(headers) : ~to_str_ok(headers[i].value)
    THEN [tag |-> "panic", canonical_request |-> <<>>]
    ELSE IF \/ encode_uri(path).tag = "panic"
            \/ \E i \in 1..Len(query) :
                 encode_uri(query[i][1]).tag = "panic" \/ encode_uri(query[i][2]).tag = "panic"
    THEN [tag |-> "panic", canonical_request |-> <<>>]
    ELSE
    LET sorted == canonical_headers(headers)
        parts ==
            <<method, encode_uri(path).s, canonical_query(query)>>
            \o [i \in 1..Len(sorted) |-> sorted[i].name \o <<58>> \o sorted[i].value]
            \o << <<>> >>
            \o <<Join([i \in 1..Len(sorted) |-> sorted[i].name], <<59>>)>>
            \o <<payload_hash>>
    IN  [tag |-> "Ok", canonical_request |-> Join(parts, <<10>>)]

(* The requests of the model *)

\* A variant of HeaderMap_insert that adds the value after those the map has
\* and replaces none, as HeaderMap::append does.
HeaderMap_insert_appending(headers, name, value) ==
    Append(headers, [name |-> name, value |-> value])

\* HeaderMap::insert(name, value): the value of a name already in the map is
\* replaced where it is, a new name goes to the end.  The map is kept in the
\* order of its iterator, which is the order of insertion.
HeaderMap_insert(headers, name, value) ==
    IF \E i \in 1..Len(headers) : headers[i].name = name
    THEN [i \in 1..Len(headers) |->
            IF headers[i].name = name THEN [name |-> name, value |-> value] ELSE headers[i]]
    ELSE Append(headers, [name |-> name, value |-> value])

\* "x-amz-date" and "x-amz-content-sha256"
x_amz_date == <<120, 45, 97, 109, 122, 45, 100, 97, 116, 101>>
x_amz_content_sha256 == <<120, 45, 97, 109, 122, 45, 99, 111, 110, 116, 101, 110, 116, 45, 115, 104, 97, 50, 53, 54>>

\* The header map signing_get_canonical_request_hash is called with: the
\* caller's, after the two inserts of sign_request.
initial_headers(req) ==
    HeaderMap_insert(
        HeaderMap_insert(req.headers, x_amz_date, req.now),
        x_amz_content_sha256, req.payload_hash)

\* The most parameters of a query.
MaxQuery == 2

\* "GET", "PUT"
Methods == {<<71, 69, 84>>, <<80, 85, 84>>}

\* "/", "/crates/foo/foo-0.1.0.crate", "/a b", "/caf" U+00E9, "/" U+20AC
Paths ==
    {<<47>>,
     <<47, 99, 114, 97, 116, 101, 115, 47, 102, 111, 111, 47, 102, 111, 111, 45, 48, 46, 49, 46, 48, 46, 99, 114, 97, 116, 101>>,
     <<47, 97, 32, 98>>,
     <<47, 99, 97, 102, 233>>,
     <<47, 8364>>}

\* Keys "a", "a-", "b", "a b" and values "1", "2"
QueryPairs ==
    {<<k, v>> : k \in {<<97>>, <<97, 45>>, <<98>>, <<97, 32, 98>>},
                v \in {<<49>>, <<50>>}}

\* The headers of the caller, in the order of their insertion: none; host;
\* x-amz-meta-a, host; content-type, host; a host whose value has the byte
\* 0xE9; a date of the caller's, host.
CallerHeaders ==
    {<<>>,
     <<[name |-> <<104, 111, 115, 116>>, value |-> <<115, 51, 46, 101, 120, 97, 109, 112, 108, 101, 46, 99, 111, 109>>]>>,
     <<[name |-> <<120, 45, 97, 109, 122, 45, 109, 101, 116, 97, 45, 97>>, value |-> <<49>>],
       [name |-> <<104, 111, 115, 116>>, value |-> <<115, 51, 46, 101, 120, 97, 109, 112, 108, 101, 46, 99, 111, 109>>]>>,
     <<[name |-> <<99, 111, 110, 116, 101, 110, 116, 45, 116, 121, 112, 101>>, value |-> <<116, 101, 120, 116, 47, 112, 108, 97, 105, 110>>],
       [name |-> <<104, 111, 115, 116>>, value |-> <<115, 51, 46, 101, 120, 97, 109, 112, 108, 101, 46, 99, 111, 109>>]>>,
     <<[name |-> <<104, 111, 115, 116>>, value |-> <<99, 97, 102, 233>>]>>,
     <<[name |-> <<120, 45, 97, 109, 122, 45, 100, 97, 116, 101>>, value |-> <<111, 108, 100>>],
       [name |-> <<104, 111, 115, 116>>, value |-> <<115, 51, 46, 101, 120, 97, 109, 112, 108, 101, 46, 99, 111, 109>>]>>}

\* "UNSIGNED-PAYLOAD", and the first digits of a digest
PayloadHashes == {<<85, 78, 83, 73, 71, 78, 69, 68, 45, 80, 65, 89, 76, 79, 65, 68>>, <<50, 99, 102, 50, 52, 100, 98, 97>>}

\* now.format("%Y%m%dT%H%M%SZ") of the time of the call: "20130524T000000Z"
Timestamps == {<<50, 48, 49, 51, 48, 53, 50, 52, 84, 48, 48, 48, 48, 48, 48, 90>>}

Requests ==
    [method : Methods, path : Paths, query : SeqsUpTo(QueryPairs, MaxQuery),
     headers : CallerHeaders, payload_hash : PayloadHashes, now : Timestamps]

InitSigning ==
    /\ request \in Requests
    /\ canonical = NoCanonical
    /\ params = NoParams
    /\ signed = NoSigned
    /\ buffer = <<>>
    /\ upload = NoUpload
    /\ metadata = NoMetadata
    /\ content = <<>>
    /\ validation = NoValidation
    /\ index_data = NoIndexData
    /\ RegistryUser = <<>>
    /\ access = NoAccess
    /\ uri = <<>>
    /\ encoded = NoEncoded
    /\ pc = <<>>
    /\ op = <<>>
    /\ mutex = 0
    /\ index = <<>>
    /\ commits = 0
    /\ blobs = <<>>
    /\ CrateVersion = {}
    /\ pending = <<>>
    /\ outcome = <<>>
    /\ before = <<>>
    /\ ops = 0
    /\ env = <<>>
    /\ rng = NoRng
    /\ configuration = NoConfiguration
    /\ files = NoFiles

\* sign_request, up to its call of signing_get_canonical_request_hash.
CanonicalRequest ==
    /\ canonical.tag = "none"
    /\ canonical' = signing_get_canonical_request_hash(
                        request.method, request.path, request.query,
                        initial_headers(request), request.payload_hash)
    /\ UNCHANGED <<request, params, signed, envelopeVars, metadataVars, accessVars, uriVars, publishVars, configVars>>

(* sign_request *)

\* hmac_sha256(key, message): the tag of HMAC-SHA256.  As for sha256, the tag
\* is the term that names the function, the key and the message.
hmac_sha256(key, message) == [mac |-> "HMAC-SHA256", key |-> key, message |-> message]

\* now.format("%Y%m%d"), of now formatted as %Y%m%dT%H%M%SZ
date_yyyymmdd(now) == SubSeq(now, 1, 8)

\* HeaderValue::from_str succeeds unless the string has a control character
\* other than the tab.
from_str_ok(s) == \A i \in 1..Len(s) : s[i] = 9 \/ (s[i] >= 32 /\ s[i] # 127)

\* "s3"
s3 == <<115, 51>>

\* A variant of service_name that ignores the configured service.
service_name_always_s3(p) == s3

\* params.service.as_ref().map_or("s3", AsRef::as_ref)
service_name(p) == IF p.service = None THEN s3 ELSE p.service[1]

\* signing_get_string_to_sign(now, region, service, canonical_hash): text is
\* the string up to the canonical hash, which ends it.
signing_get_string_to_sign(now, region, service, canonical_hash) ==
    [text |-> <<65, 87, 83, 52, 45, 72, 77, 65, 67, 45, 83, 72, 65, 50, 53, 54>> \o <<10>> \o now \o <<10>>
              \o date_yyyymmdd(now) \o <<47>> \o region \o <<47>> \o service
              \o <<47>> \o <<97, 119, 115, 52, 95, 114, 101, 113, 117, 101, 115, 116>> \o <<10>>,
     canonical_hash |-> canonical_hash]

\* signing_get_key(secret_key, now, region, service)
signing_get_key(secret_key, now, region, service) ==
    LET date_key == hmac_sha256(<<65, 87, 83, 52>> \o secret_key, date_yyyymmdd(now))
        date_region_key == hmac_sha256(date_key, region)
        date_region_service_key == hmac_sha256(date_region_key, service)
    IN  hmac_sha256(date_region_service_key, <<97, 119, 115, 52, 95, 114, 101, 113, 117, 101, 115, 116>>)

\* signing_do_sign(string_to_sign, signing_key)
signing_do_sign(string_to_sign, signing_key) ==
    [encoding |-> "hex-lower", of |-> hmac_sha256(signing_key, string_to_sign)]

\* "authorization"
authorization == <<97, 117, 116, 104, 111, 114, 105, 122, 97, 116, 105, 111, 110>>

\* The value of the Authorization header: text is the string up to the
\* signature, which ends it.
authorization_value(p, now, names, signature) ==
    [text |-> <<65, 87, 83, 52, 45, 72, 77, 65, 67, 45, 83, 72, 65, 50, 53, 54>> \o <<32, 67, 114, 101, 100, 101, 110, 116, 105, 97, 108, 61>> \o p.access_key \o <<47>>
              \o date_yyyymmdd(now) \o <<47>> \o p.region
              \o <<47, 115, 51, 47, 97, 119, 115, 52, 95, 114, 101, 113, 117, 101, 115, 116, 44, 32, 83, 105, 103, 110, 101, 100, 72, 101, 97, 100, 101, 114, 115, 61>> \o Join(names, <<59>>) \o <<44, 32, 83, 105, 103, 110, 97, 116, 117, 114, 101, 61>>,
     signature |-> signature]

\* sign_request(params, method, path, query, headers, payload_hash), now being
\* the time Local::now() gives it: the header map the caller is left with and
\* the strings computed on the way, or the panic of an unwrap.
sign_request(p, req) ==
    LET with_date == HeaderMap_insert(req.headers, x_amz_date, req.now)
        with_hash == HeaderMap_insert(with_date, x_amz_content_sha256, req.payload_hash)
        canonical_hash == signing_get_canonical_request_hash(
                              req.method, req.path, req.query, with_hash, req.payload_hash)
        string_to_sign == signing_get_string_to_sign(
                              req.now, p.region, service_name(p),
                              sha256(canonical_hash.canonical_request))
        signing_key == signing_get_key(p.secret_key, req.now, p.region, service_name(p))
        signature == signing_do_sign(string_to_sign, signing_key)
        names == [i \in 1..Len(with_hash) |-> to_lowercase(with_hash[i].name)]
        value == authorization_value(p, req.now, names, signature)
    IN  IF ~from_str_ok(req.payload_hash)
        THEN [NoSigned EXCEPT !.tag = "panic", !.headers = with_date]
        ELSE IF canonical_hash.tag = "panic"
        THEN [NoSigned EXCEPT !.tag = "panic", !.headers = with_hash]
        ELSE IF ~from_str_ok(value.text)
        THEN [tag |-> "panic", headers |-> with_hash, string_to_sign |-> string_to_sign,
              signing_key |-> signing_key, signature |-> signature]
        ELSE [tag |-> "Ok",
              headers |-> HeaderMap_insert(with_hash, authorization, value),
              string_to_sign |-> string_to_sign,
              signing_key |-> signing_key,
              signature |-> signature]

\* Result::ok
ok(result) == IF result.tag = "Ok" THEN Some(result.value) ELSE None

\* The outcomes of get_var("REGISTRY_S3_SERVICE"): not set; "s3";
\* "execute-api"; set to the empty string.
S3ServiceVars ==
    {[tag |-> "Err", value |-> <<>>],
     [tag |-> "Ok", value |-> <<115, 51>>],
     [tag |-> "Ok", value |-> <<101, 120, 101, 99, 117, 116, 101, 45, 97, 112, 105>>],
     [tag |-> "Ok", value |-> <<>>]}

\* The S3Params of Configuration::from_env: region "us-east-1", access key
\* "AKIDEXAMPLE", secret key "wJalrXUtnFEMI".
S3Params ==
    {[region |-> <<117, 115, 45, 101, 97, 115, 116, 45, 49>>, service |-> ok(service_var),
      access_key |-> <<65, 75, 73, 68, 69, 88, 65, 77, 80, 76, 69>>, secret_key |-> <<119, 74, 97, 108, 114, 88, 85, 116, 110, 70, 69, 77, 73>>] : service_var \in S3ServiceVars}

\* Headers of a caller that has an authorization header of its own
\* ("Basic abc"), and a host.
CallerAuthorization ==
    <<[name |-> authorization, value |-> <<66, 97, 115, 105, 99, 32, 97, 98, 99>>],
      [name |-> <<104, 111, 115, 116>>, value |-> <<115, 51, 46, 101, 120, 97, 109, 112, 108, 101, 46, 99, 111, 109>>]>>

\* The requests that are signed: those of at most one query parameter, a
\* payload hash with a line feed ("a\nb") among the payload hashes, and the
\* caller with an authorization header among the callers.
SignedRequests ==
    [method : Methods, path : Paths, query : SeqsUpTo(QueryPairs, 1),
     headers : CallerHeaders \cup {CallerAuthorization},
     payload_hash : PayloadHashes \cup {<<97, 10, 98>>},
     now : Timestamps]

InitSign ==
    /\ request \in SignedRequests
    /\ params \in S3Params
    /\ signed = NoSigned
    /\ canonical = NoCanonical
    /\ buffer = <<>>
    /\ upload = NoUpload
    /\ metadata = NoMetadata
    /\ content = <<>>
    /\ validation = NoValidation
    /\ index_data = NoIndexData
    /\ RegistryUser = <<>>
    /\ access = NoAccess
    /\ uri = <<>>
    /\ encoded = NoEncoded
    /\ pc = <<>>
    /\ op = <<>>
    /\ mutex = 0
    /\ index = <<>>
    /\ commits = 0
    /\ blobs = <<>>
    /\ CrateVersion = {}
    /\ pending = <<>>
    /\ outcome = <<>>
    /\ before = <<>>
    /\ ops = 0
    /\ env = <<>>
    /\ rng = NoRng
    /\ configuration = NoConfiguration
    /\ files = NoFiles

SignRequest ==
    /\ signed.tag = "none"
    /\ signed' = sign_request(params, request)
    /\ UNCHANGED <<request, canonical, params, envelopeVars, metadataVars, accessVars, uriVars, publishVars, configVars>>

\* The longest string handed to encode_uri.
MaxUri == 2

\* a Z 0 / - _ . ~, blank % = DEL, U+0080 U+00E9 U+00FF, U+0100 U+20AC U+1F600
UriChars == {97, 90, 48, 47, 45, 95, 46, 126, 32, 37, 61, 127, 128, 233, 255,
             256, 8364, 128512}

InitUri ==
    /\ uri \in SeqsUpTo(UriChars, MaxUri)
    /\ encoded = NoEncoded
    /\ pc = <<>>
    /\ op = <<>>
    /\ mutex = 0
    /\ index = <<>>
    /\ commits = 0
    /\ blobs = <<>>
    /\ CrateVersion = {}
    /\ pending = <<>>
    /\ outcome = <<>>
    /\ before = <<>>
    /\ ops = 0
    /\ env = <<>>
    /\ rng = NoRng
    /\ configuration = NoConfiguration
    /\ files = NoFiles
    /\ buffer = <<>>
    /\ upload = NoUpload
    /\ metadata = NoMetadata
    /\ content = <<>>
    /\ validation = NoValidation
    /\ index_data = NoIndexData
    /\ RegistryUser = <<>>
    /\ access = NoAccess
    /\ request = NoRequest
    /\ canonical = NoCanonical
    /\ params = NoParams
    /\ signed = NoSigned

EncodeUri ==
    /\ encoded.tag = "none"
    /\ encoded' = encode_uri(uri)
    /\ UNCHANGED <<uri, envelopeVars, metadataVars, accessVars, signingVars, publishVars, configVars>>

-----------------------------------------------------------------------------
(* The Publish Pipeline and yank/unyank.  The source has the decoder, the   *)
(* validation and the index record of a publish; the steps, the Index       *)
(* mutex, the transaction and the rollback rules below are those of the     *)
(* specification of the registry (sections 4.1 - 4.3, 4.5 and 5).           *)

\* The clients whose requests are served concurrently.
Clients == {1, 2}

\* The most operations begun in a behaviour.
MaxOps == 3

\* "foo"
CrateNames == {<<102, 111, 111>>}

\* "0.1.0", "0.2.0"
Versions == {<<48, 46, 49, 46, 48>>, <<48, 46, 50, 46, 48>>}

\* "hello", "hell"
Archives == {<<104, 101, 108, 108, 111>>, <<104, 101, 108, 108>>}

\* A publish of an archive as (name, vers), or a yank (yanked = TRUE) or
\* unyank (yanked = FALSE) of (name, vers).
Operations ==
    [kind : {"publish"}, name : CrateNames, vers : Versions, archive : Archives,
     yanked : {FALSE}]
    \cup
    [kind : {"yank"}, name : CrateNames, vers : Versions, archive : {<<>>},
     yanked : BOOLEAN]

NoOperation == [kind |-> "none", name |-> <<>>, vers |-> <<>>, archive |-> <<>>, yanked |-> FALSE]

\* The response of an operation: the error, "" for none, and the step of
\* the pipeline that failed, 0 for none.
Response(error, step) == [error |-> error, step |-> step]
NoResponse == Response("none", 0)

\* The stores as a client finds them when it takes the mutex.
Stores == [index |-> index, commits |-> commits, blobs |-> blobs, CrateVersion |-> CrateVersion]
NoStores == [index |-> <<>>, commits |-> <<>>, blobs |-> {}, CrateVersion |-> {}]

\* The key of a crate archive: crates/{name}/{name}-{vers}.crate
object_key(name, vers) ==
    <<99, 114, 97, 116, 101, 115, 47>> \o name \o <<47>> \o name \o <<45>> \o vers
    \o <<46, 99, 114, 97, 116, 101>>

\* PUT object and DELETE object of the Blob Store.
put_object(store, key, bytes) ==
    {b \in store : b.key # key} \cup {[key |-> key, bytes |-> bytes]}
delete_object(store, key) == {b \in store : b.key # key}

\* The IndexRecord of a publish, as far as the stores compare it: name,
\* vers, cksum and yanked (step 5).
IndexRecord(o) ==
    [name |-> o.name, vers |-> o.vers, cksum |-> sha256(o.archive), yanked |-> FALSE]

\* yank_set(name, vers, yanked): the matching line with its flag set, the
\* other lines as they are.
yank_set(lines, name, vers, yanked) ==
    [i \in 1..Len(lines) |->
        IF lines[i].name = name /\ lines[i].vers = vers
        THEN [lines[i] EXCEPT !.yanked = yanked]
        ELSE lines[i]]

\* version_set_yanked on the rows of the table.
version_set_yanked(rows, name, vers, yanked) ==
    {IF r.name = name /\ r.vers = vers THEN [r EXCEPT !.yanked = yanked] ELSE r : r \in rows}

\* A row of (name, vers) is in the table, yanked or not.
version_exists(rows, name, vers) == \E r \in rows : r.name = name /\ r.vers = vers

\* git reset --hard HEAD~1: the last commit is dropped, the working tree is
\* that of the commit before it.
git_reset_commits == SubSeq(commits, 1, Len(commits) - 1)
git_reset_index == commits[Len(commits) - 1]

InitPublish ==
    /\ pc = [p \in Clients |-> "idle"]
    /\ op = [p \in Clients |-> NoOperation]
    /\ mutex = 0
    /\ index = <<>>
    /\ commits = << <<>> >>
    /\ blobs = {}
    /\ CrateVersion = {}
    /\ pending = [p \in Clients |-> None]
    /\ outcome = [p \in Clients |-> NoResponse]
    /\ before = [p \in Clients |-> NoStores]
    /\ ops = 0
    /\ buffer = <<>>
    /\ upload = NoUpload
    /\ metadata = NoMetadata
    /\ content = <<>>
    /\ validation = NoValidation
    /\ index_data = NoIndexData
    /\ RegistryUser = <<>>
    /\ access = NoAccess
    /\ request = NoRequest
    /\ canonical = NoCanonical
    /\ params = NoParams
    /\ signed = NoSigned
    /\ uri = <<>>
    /\ encoded = NoEncoded
    /\ env = <<>>
    /\ rng = NoRng
    /\ configuration = NoConfiguration
    /\ files = NoFiles

otherVars == <<envelopeVars, metadataVars, accessVars, signingVars, uriVars, configVars>>

\* The end of an operation of client p with a response, the mutex released
\* if p held it.
Ends(p, response) ==
    /\ pc' = [pc EXCEPT ![p] = "done"]
    /\ outcome' = [outcome EXCEPT ![p] = response]
    /\ pending' = [pending EXCEPT ![p] = None]
    /\ mutex' = IF mutex = p THEN 0 ELSE mutex

\* Steps 1 to 3: a request arrives, the transaction begins, the caller is
\* authenticated, the metadata parsed and validated, the ownership checked.
\* A failure here has no side effect.
Begin(p) ==
    /\ pc[p] = "idle"
    /\ ops < MaxOps
    /\ ops' = ops + 1
    /\ \E o \in Operations : op' = [op EXCEPT ![p] = o]
    /\ \E error \in {"", "unauthorized", "invalid-request", "forbidden"} :
          IF error = ""
          THEN /\ pc' = [pc EXCEPT ![p] = "validated"]
               /\ outcome' = [outcome EXCEPT ![p] = NoResponse]
          ELSE /\ pc' = [pc EXCEPT ![p] = "done"]
               /\ outcome' = [outcome EXCEPT ![p] = Response(error, 1)]
    /\ before' = [before EXCEPT ![p] = NoStores]
    /\ UNCHANGED <<mutex, index, commits, blobs, CrateVersion, pending, otherVars>>

\* A variant of CheckUniqueness that lets a yanked version be published again.
CheckUniqueness_unless_yanked(p) ==
    /\ pc[p] = "validated"
    /\ op[p].kind = "publish"
    /\ IF \E r \in CrateVersion :
            r.name = op[p].name /\ r.vers = op[p].vers /\ ~r.yanked
       THEN Ends(p, Response("conflict", 4))
       ELSE /\ pc' = [pc EXCEPT ![p] = "checked"]
            /\ UNCHANGED <<outcome, pending, mutex>>
    /\ UNCHANGED <<op, index, commits, blobs, CrateVersion, before, ops, otherVars>>

\* Step 4: reject if (name, vers) exists, even if yanked.
CheckUniqueness(p) ==
    /\ pc[p] = "validated"
    /\ op[p].kind = "publish"
    /\ IF version_exists(CrateVersion, op[p].name, op[p].vers)
       THEN Ends(p, Response("conflict", 4))
       ELSE /\ pc' = [pc EXCEPT ![p] = "checked"]
            /\ UNCHANGED <<outcome, pending, mutex>>
    /\ UNCHANGED <<op, index, commits, blobs, CrateVersion, before, ops, otherVars>>

\* The analogue for yank/unyank: the version must exist.
CheckExists(p) ==
    /\ pc[p] = "validated"
    /\ op[p].kind = "yank"
    /\ IF version_exists(CrateVersion, op[p].name, op[p].vers)
       THEN /\ pc' = [pc EXCEPT ![p] = "checked"]
            /\ UNCHANGED <<outcome, pending, mutex>>
       ELSE Ends(p, Response("not-found", 4))
    /\ UNCHANGED <<op, index, commits, blobs, CrateVersion, before, ops, otherVars>>

\* A variant of Lock that does not wait for the mutex.
Lock_without_waiting(p) ==
    /\ pc[p] = "checked"
    /\ mutex' = p
    /\ pc' = [pc EXCEPT ![p] = "locked"]
    /\ before' = [before EXCEPT ![p] = Stores]
    /\ UNCHANGED <<op, index, commits, blobs, CrateVersion, pending, outcome, ops, otherVars>>

\* Step 5: the Index mutex is taken, to be held from here onward; the
\* archive is hashed and the IndexRecord built.
Lock(p) ==
    /\ pc[p] = "checked"
    /\ mutex = 0
    /\ mutex' = p
    /\ pc' = [pc EXCEPT ![p] = "locked"]
    /\ before' = [before EXCEPT ![p] = Stores]
    /\ UNCHANGED <<op, index, commits, blobs, CrateVersion, pending, outcome, ops, otherVars>>

\* Step 6: the archive is uploaded to the Blob Store at the canonical key.
Upload(p) ==
    /\ pc[p] = "locked"
    /\ op[p].kind = "publish"
    /\ blobs' = put_object(blobs, object_key(op[p].name, op[p].vers), op[p].archive)
    /\ pc' = [pc EXCEPT ![p] = "uploaded"]
    /\ UNCHANGED <<op, mutex, index, commits, CrateVersion, pending, outcome, before, ops, otherVars>>

\* Failure in step 6: nothing to undo.
UploadFails(p) ==
    /\ pc[p] = "locked"
    /\ op[p].kind = "publish"
    /\ Ends(p, Response("upstream-failure", 6))
    /\ UNCHANGED <<op, index, commits, blobs, CrateVersion, before, ops, otherVars>>

\* Step 7: the IndexRecord is appended to the crate file and committed (and
\* pushed if configured).
IndexAppend(p) ==
    /\ pc[p] = "uploaded"
    /\ index' = Append(index, IndexRecord(op[p]))
    /\ commits' = Append(commits, index')
    /\ pc' = [pc EXCEPT ![p] = "appended"]
    /\ UNCHANGED <<op, mutex, blobs, CrateVersion, pending, outcome, before, ops, otherVars>>

\* Failure in step 7 after a successful blob upload: the local commit, if
\* made, is rolled back; DELETE the uploaded object; surface the error.
AppendFails(p) ==
    /\ pc[p] = "uploaded"
    /\ blobs' = delete_object(blobs, object_key(op[p].name, op[p].vers))
    /\ Ends(p, Response("upstream-failure", 7))
    /\ UNCHANGED <<op, index, commits, CrateVersion, before, ops, otherVars>>

\* The compensation of a failure after a successful index commit:
\* git reset --hard HEAD~1, then DELETE the blob.
Compensate(p) ==
    /\ index' = git_reset_index
    /\ commits' = git_reset_commits
    /\ blobs' = delete_object(blobs, object_key(op[p].name, op[p].vers))

\* Step 8: the CrateVersion row is written in the transaction.  The table
\* has one row for (crate_name, vers) at most.
Persist(p) ==
    /\ pc[p] = "appended"
    /\ ~version_exists(CrateVersion, op[p].name, op[p].vers)
    /\ pending' = [pending EXCEPT ![p] = Some(IndexRecord(op[p]))]
    /\ pc' = [pc EXCEPT ![p] = "persisted"]
    /\ UNCHANGED <<op, mutex, index, commits, blobs, CrateVersion, outcome, before, ops, otherVars>>

\* A variant of PersistFails that leaves the index commit in place.
PersistFails_without_reset(p) ==
    /\ pc[p] = "appended"
    /\ blobs' = delete_object(blobs, object_key(op[p].name, op[p].vers))
    /\ Ends(p, Response("upstream-failure", 8))
    /\ UNCHANGED <<op, index, commits, CrateVersion, before, ops, otherVars>>

\* Failure in step 8 after a successful index commit.
PersistFails(p) ==
    /\ pc[p] = "appended"
    /\ Compensate(p)
    /\ Ends(p, Response(IF version_exists(CrateVersion, op[p].name, op[p].vers)
                        THEN "conflict" ELSE "upstream-failure", 8))
    /\ UNCHANGED <<op, CrateVersion, before, ops, otherVars>>

\* Step 9: the transaction is committed, and the mutex released after it.
Commit(p) ==
    /\ pc[p] = "persisted"
    /\ CrateVersion' = CrateVersion \cup {pending[p][1]}
    /\ Ends(p, Response("", 0))
    /\ UNCHANGED <<op, index, commits, blobs, before, ops, otherVars>>

\* Failure in step 9: same as failure in step 8.
CommitFails(p) ==
    /\ pc[p] = "persisted"
    /\ Compensate(p)
    /\ Ends(p, Response("upstream-failure", 9))
    /\ UNCHANGED <<op, CrateVersion, before, ops, otherVars>>

\* Yank/unyank under the mutex: the matching line is rewritten and committed.
YankRewrite(p) ==
    /\ pc[p] = "locked"
    /\ op[p].kind = "yank"
    /\ index' = yank_set(index, op[p].name, op[p].vers, op[p].yanked)
    /\ commits' = Append(commits, index')
    /\ pc' = [pc EXCEPT ![p] = "rewritten"]
    /\ UNCHANGED <<op, mutex, blobs, CrateVersion, pending, outcome, before, ops, otherVars>>

YankRewriteFails(p) ==
    /\ pc[p] = "locked"
    /\ op[p].kind = "yank"
    /\ Ends(p, Response("upstream-failure", 7))
    /\ UNCHANGED <<op, index, commits, blobs, CrateVersion, before, ops, otherVars>>

\* The row is updated and the transaction committed, the mutex released
\* after it.
YankCommit(p) ==
    /\ pc[p] = "rewritten"
    /\ CrateVersion' = version_set_yanked(CrateVersion, op[p].name, op[p].vers, op[p].yanked)
    /\ Ends(p, Response("", 0))
    /\ UNCHANGED <<op, index, commits, blobs, before, ops, otherVars>>

\* The update of the row or the commit fails: the index commit is undone.
YankCommitFails(p) ==
    /\ pc[p] = "rewritten"
    /\ index' = git_reset_index
    /\ commits' = git_reset_commits
    /\ Ends(p, Response("upstream-failure", 9))
    /\ UNCHANGED <<op, blobs, CrateVersion, before, ops, otherVars>>

\* The response is sent; the client may ask again.
Respond(p) ==
    /\ pc[p] = "done"
    /\ pc' = [pc EXCEPT ![p] = "idle"]
    /\ before' = [before EXCEPT ![p] = NoStores]
    /\ UNCHANGED <<op, mutex, index, commits, blobs, CrateVersion, pending, outcome, ops, otherVars>>

NextPublish ==
    \E p \in Clients :
        \/ Begin(p)
        \/ CheckUniqueness(p)
        \/ CheckExists(p)
        \/ Lock(p)
        \/ Upload(p)
        \/ UploadFails(p)
        \/ IndexAppend(p)
        \/ AppendFails(p)
        \/ Persist(p)
        \/ PersistFails(p)
        \/ Commit(p)
        \/ CommitFails(p)
        \/ YankRewrite(p)
        \/ YankRewriteFails(p)
        \/ YankCommit(p)
        \/ YankCommitFails(p)
        \/ Respond(p)

-----------------------------------------------------------------------------
(* model/config.rs: Configuration::from_env and write_auth_config, with     *)
(* generate_token of objects.rs.  objects.rs has the same two functions,    *)
(* with REGISTRY_PUBLIC_URI for REGISTRY_WEB_PUBLIC_URI.                    *)

\* get_var(name): the value of the variable, or the error that names it.
\* The values of the environment are valid Unicode.
get_var(e, name) ==
    IF name \in DOMAIN e
    THEN [tag |-> "Ok", value |-> e[name], var_name |-> ""]
    ELSE [tag |-> "Err", value |-> <<>>, var_name |-> name]

\* format!("REGISTRY_EXTERNAL_{external_registry_index}_{field}")
external_var(n, field) == "REGISTRY_EXTERNAL_" \o ToString(n) \o "_" \o field

\* The distribution Alphanumeric: A-Z a-z 0-9
Alphanumeric ==
    <<65, 66, 67, 68, 69, 70, 71, 72, 73, 74, 75, 76, 77, 78, 79, 80, 81, 82, 83, 84, 85, 86, 87, 88, 89, 90, 97, 98, 99, 100, 101, 102, 103, 104, 105, 106, 107, 108, 109, 110, 111, 112, 113, 114, 115, 116, 117, 118, 119, 120, 121, 122, 48, 49, 50, 51, 52, 53, 54, 55, 56, 57>>

\* The i-th draw of the generator of seed s from Alphanumeric.
sample(s, i) == Alphanumeric[((s * (i + 7) + i * i) % 62) + 1]

\* A variant of generate_token that is one character short.
generate_token_short(r, length) ==
    [token |-> [i \in 1..(length - 1) |-> sample(r.seed, r.pos + i)],
     rng |-> [r EXCEPT !.pos = r.pos + length - 1]]

\* generate_token(length), of the generator r: the next length draws, and
\* the generator after them.
generate_token(r, length) ==
    [token |-> [i \in 1..length |-> sample(r.seed, r.pos + i)],
     rng |-> [r EXCEPT !.pos = r.pos + length]]

\* The variables from_env requires before it enumerates the external
\* registries, and after, in the order it reads them.
RequiredBefore ==
    <<"REGISTRY_DATA_DIR", "REGISTRY_WEB_PUBLIC_URI",
      "REGISTRY_GIT_USER_NAME", "REGISTRY_GIT_USER_EMAIL">>
RequiredAfter ==
    <<"REGISTRY_S3_URI", "REGISTRY_S3_REGION", "REGISTRY_S3_ACCESS_KEY",
      "REGISTRY_S3_SECRET_KEY", "REGISTRY_S3_BUCKET",
      "REGISTRY_OAUTH_LOGIN_URI", "REGISTRY_OAUTH_TOKEN_URI",
      "REGISTRY_OAUTH_CALLBACK_URI", "REGISTRY_OAUTH_USERINFO_URI",
      "REGISTRY_OAUTH_CLIENT_ID", "REGISTRY_OAUTH_CLIENT_SECRET",
      "REGISTRY_OAUTH_CLIENT_SCOPE">>

\* The first variable of the list that is not set, if any.
first_missing(e, names) ==
    LET missing == {i \in 1..Len(names) : names[i] \notin DOMAIN e} IN
    IF missing = {} THEN None
    ELSE Some(names[CHOOSE i \in missing : \A j \in missing : i <= j])

\* A variant of the loop that skips a registry without a name and goes on
\* to the next number while a later one has a name.
external_registries_skipping(e, n, acc) ==
    LET RECURSIVE go(_, _)
        go(k, out) ==
            IF \A m \in k..(k + 1) : external_var(m, "NAME") \notin DOMAIN e
            THEN [tag |-> "Ok", registries |-> out, var_name |-> ""]
            ELSE IF external_var(k, "NAME") \notin DOMAIN e THEN go(k + 1, out)
            ELSE LET missing == first_missing(e,
                        <<external_var(k, "INDEX"), external_var(k, "DOCS"),
                          external_var(k, "LOGIN"), external_var(k, "TOKEN")>>)
                 IN  IF missing # None
                     THEN [tag |-> "Err", registries |-> <<>>, var_name |-> missing[1]]
                     ELSE go(k + 1, Append(out,
                            [name |-> e[external_var(k, "NAME")],
                             index |-> e[external_var(k, "INDEX")],
                             docs_root |-> e[external_var(k, "DOCS")],
                             login |-> e[external_var(k, "LOGIN")],
                             token |-> e[external_var(k, "TOKEN")]]))
    IN  go(n, acc)

\* The loop of from_env over the external registries, from the number n on
\* with acc collected: while REGISTRY_EXTERNAL_n_NAME is set, the four other
\* variables of the registry are required and the registry is pushed.
RECURSIVE external_registries(_, _, _)
external_registries(e, n, acc) ==
    LET name == get_var(e, external_var(n, "NAME")) IN
    IF name.tag # "Ok"
    THEN [tag |-> "Ok", registries |-> acc, var_name |-> ""]
    ELSE LET index_uri == get_var(e, external_var(n, "INDEX"))
             docs_root == get_var(e, external_var(n, "DOCS"))
             login == get_var(e, external_var(n, "LOGIN"))
             token == get_var(e, external_var(n, "TOKEN"))
         IN  IF index_uri.tag # "Ok"
             THEN [tag |-> "Err", registries |-> <<>>, var_name |-> index_uri.var_name]
             ELSE IF docs_root.tag # "Ok"
             THEN [tag |-> "Err", registries |-> <<>>, var_name |-> docs_root.var_name]
             ELSE IF login.tag # "Ok"
             THEN [tag |-> "Err", registries |-> <<>>, var_name |-> login.var_name]
             ELSE IF token.tag # "Ok"
             THEN [tag |-> "Err", registries |-> <<>>, var_name |-> token.var_name]
             ELSE external_registries(e, n + 1, Append(acc,
                    [name |-> name.value, index |-> index_uri.value,
                     docs_root |-> docs_root.value,
                     login |-> login.value, token |-> token.value]))

\* str::find(c): the index of the first c of s, counted from 0.
find(s, c) ==
    LET at == {i \in 1..Len(s) : s[i] = c} IN
    IF at = {} THEN None ELSE Some((CHOOSE i \in at : \A j \in at : i <= j) - 1)

\* Uri::from_str(uri) succeeds: on scheme://authority..., on a path, and on
\* an authority alone, not on an authority followed by a path.
uri_from_str_ok(s) ==
    LET slash == find(s, 47) IN
    \/ slash = None /\ s # <<>>
    \/ slash # None /\ slash[1] = 0
    \/ slash # None /\ slash[1] >= 2 /\ slash[1] + 2 < Len(s)
          /\ s[slash[1]] = 58 /\ s[slash[1] + 2] = 47

\* A variant of push_changes_value that compares with "true" as it is written.
push_changes_value_exact(value) ==
    \/ value = <<49>>
    \/ value = <<116, 114, 117, 101>>

\* value == "1" || value.eq_ignore_ascii_case("true")
push_changes_value(value) ==
    \/ value = <<49>>
    \/ to_lowercase(value) = <<116, 114, 117, 101>>

ConfigurationError(name) == [tag |-> "Err", var_name |-> name]
ConfigurationPanic == [tag |-> "panic", var_name |-> ""]

\* Configuration::from_env(), of the environment e and the generator r:
\* the configuration or the error, and the generator after the call.
from_env(e, r) ==
    LET before_loop == first_missing(e, RequiredBefore)
        externals == external_registries(e, 1, <<>>)
        after_loop == first_missing(e, RequiredAfter)
        login == generate_token(r, 16)
        token == generate_token(login.rng, 64)
    IN  IF before_loop # None
        THEN [configuration |-> ConfigurationError(before_loop[1]), rng |-> r]
        ELSE IF externals.tag = "Err"
        THEN [configuration |-> ConfigurationError(externals.var_name), rng |-> r]
        ELSE IF ~uri_from_str_ok(e["REGISTRY_WEB_PUBLIC_URI"])
        THEN [configuration |-> ConfigurationPanic, rng |-> r]
        ELSE IF after_loop # None
        THEN [configuration |-> ConfigurationError(after_loop[1]), rng |-> r]
        ELSE [configuration |->
                [tag |-> "Ok",
                 var_name |-> "",
                 web_public_uri |-> e["REGISTRY_WEB_PUBLIC_URI"],
                 data_dir |-> e["REGISTRY_DATA_DIR"],
                 index_config |->
                    [location |-> e["REGISTRY_DATA_DIR"] \o <<47, 105, 110, 100, 101, 120>>,
                     remote_origin |-> ok(get_var(e, "REGISTRY_GIT_REMOTE")),
                     remote_ssh_key_file_name |->
                        ok(get_var(e, "REGISTRY_GIT_REMOTE_SSH_KEY_FILENAME")),
                     remote_push_changes |->
                        IF "REGISTRY_GIT_REMOTE_PUSH_CHANGES" \in DOMAIN e
                        THEN push_changes_value(e["REGISTRY_GIT_REMOTE_PUSH_CHANGES"])
                        ELSE FALSE,
                     user_name |-> e["REGISTRY_GIT_USER_NAME"],
                     user_email |-> e["REGISTRY_GIT_USER_EMAIL"]],
                 s3 |-> [uri |-> e["REGISTRY_S3_URI"],
                         region |-> e["REGISTRY_S3_REGION"],
                         service |-> ok(get_var(e, "REGISTRY_S3_SERVICE")),
                         access_key |-> e["REGISTRY_S3_ACCESS_KEY"],
                         secret_key |-> e["REGISTRY_S3_SECRET_KEY"]],
                 bucket |-> e["REGISTRY_S3_BUCKET"],
                 external_registries |-> externals.registries,
                 self_service_login |-> login.token,
                 self_service_token |-> token.token],
              rng |-> token.rng]

\* The bytes of a string: its UTF-8 encoding.
encode_utf8(c) ==
    IF c < 128 THEN <<c>>
    ELSE IF c < 2048 THEN <<192 + (c \div 64), 128 + (c % 64)>>
    ELSE IF c < 65536
    THEN <<224 + (c \div 4096), 128 + ((c \div 64) % 64), 128 + (c % 64)>>
    ELSE <<240 + (c \div 262144), 128 + ((c \div 4096) % 64),
           128 + ((c \div 64) % 64), 128 + (c % 64)>>

RECURSIVE as_bytes(_)
as_bytes(s) == IF s = <<>> THEN <<>> ELSE encode_utf8(s[1]) \o as_bytes(Tail(s))

\* The alphabet of base64::engine::general_purpose::STANDARD
STANDARD ==
    <<65, 66, 67, 68, 69, 70, 71, 72, 73, 74, 75, 76, 77, 78, 79, 80, 81, 82, 83, 84, 85, 86, 87, 88, 89, 90, 97, 98, 99, 100, 101, 102, 103, 104, 105, 106, 107, 108, 109, 110, 111, 112, 113, 114, 115, 116, 117, 118, 119, 120, 121, 122, 48, 49, 50, 51, 52, 53, 54, 55, 56, 57, 43, 47>>

\* STANDARD.encode(bytes): three bytes to four characters, padded with '='.
RECURSIVE STANDARD_encode(_)
STANDARD_encode(b) ==
    IF b = <<>> THEN <<>>
    ELSE IF Len(b) = 1
    THEN <<STANDARD[(b[1] \div 4) + 1], STANDARD[((b[1] % 4) * 16) + 1], 61, 61>>
    ELSE IF Len(b) = 2
    THEN <<STANDARD[(b[1] \div 4) + 1],
           STANDARD[((b[1] % 4) * 16) + (b[2] \div 16) + 1],
           STANDARD[((b[2] % 16) * 4) + 1], 61>>
    ELSE <<STANDARD[(b[1] \div 4) + 1],
           STANDARD[((b[1] % 4) * 16) + (b[2] \div 16) + 1],
           STANDARD[((b[2] % 16) * 4) + (b[3] \div 64) + 1],
           STANDARD[(b[3] % 64) + 1]>>
         \o STANDARD_encode(SubSeq(b, 4, Len(b)))

\* let index = uri.find('/').unwrap() + 2, and the two slices at it: the
\* unwrap and the slices panic on a uri without '/' or too short.
slices_ok(s) == find(s, 47) # None /\ find(s, 47)[1] + 2 <= Len(s)
slice_to(s) == SubSeq(s, 1, find(s, 47)[1] + 2)
slice_from(s) == SubSeq(s, find(s, 47)[1] + 3, Len(s))

\* format!("{}{}:{}@{}", &uri[..index], login, token, &uri[index..])
credential_uri(s, login, token) ==
    slice_to(s) \o login \o <<58>> \o token \o <<64>> \o slice_from(s)

\* format!("token = \"Basic {}\"\n", STANDARD.encode(format!("{}:{}", login, token)))
basic_token_line(login, token) ==
    <<116, 111, 107, 101, 110, 32, 61, 32, 34, 66, 97, 115, 105, 99, 32>> \o STANDARD_encode(as_bytes(login \o <<58>> \o token))
    \o <<34, 10>>

RECURSIVE Concat(_)
Concat(ss) == IF ss = <<>> THEN <<>> ELSE ss[1] \o Concat(Tail(ss))

\* A variant of git_credentials with the login and token the other way round.
git_credentials_swapped(c) ==
    credential_uri(c.web_public_uri, c.self_service_token, c.self_service_login) \o <<10>>
    \o Concat([i \in 1..Len(c.external_registries) |->
            credential_uri(c.external_registries[i].index,
                           c.external_registries[i].login,
                           c.external_registries[i].token)])

\* The content of /home/cratery/.git-credentials
git_credentials(c) ==
    credential_uri(c.web_public_uri, c.self_service_login, c.self_service_token) \o <<10>>
    \o Concat([i \in 1..Len(c.external_registries) |->
            credential_uri(c.external_registries[i].index,
                           c.external_registries[i].login,
                           c.external_registries[i].token)])

\* The content of /home/cratery/.cargo/config.toml
cargo_config(c) ==
    <<91, 114, 101, 103, 105, 115, 116, 114, 121, 93>> \o <<10>>
    \o <<103, 108, 111, 98, 97, 108, 45, 99, 114, 101, 100, 101, 110, 116, 105, 97, 108, 45, 112, 114, 111, 118, 105, 100, 101, 114, 115, 32, 61, 32, 91, 34, 99, 97, 114, 103, 111, 58, 116, 111, 107, 101, 110, 34, 93>> \o <<10>>
    \o <<10>>
    \o <<91, 114, 101, 103, 105, 115, 116, 114, 105, 101, 115, 93>> \o <<10>>
    \o <<108, 111, 99, 97, 108, 32, 61, 32, 123, 32, 105, 110, 100, 101, 120, 32, 61, 32, 34>> \o c.web_public_uri \o <<34, 32, 125>> \o <<10>>
    \o Concat([i \in 1..Len(c.external_registries) |->
            c.external_registries[i].name \o <<32, 61, 32, 123, 32, 105, 110, 100, 101, 120, 32, 61, 32, 34>>
            \o c.external_registries[i].index \o <<34, 32, 125>> \o <<10>>])

\* The content of /home/cratery/.cargo/credentials
cargo_credentials(c) ==
    <<91, 114, 101, 103, 105, 115, 116, 114, 105, 101, 115, 46, 108, 111, 99, 97, 108, 93>> \o <<10>>
    \o basic_token_line(c.self_service_login, c.self_service_token)
    \o Concat([i \in 1..Len(c.external_registries) |->
            <<91, 114, 101, 103, 105, 115, 116, 114, 105, 101, 115, 46>> \o c.external_registries[i].name \o <<93>> \o <<10>>
            \o basic_token_line(c.external_registries[i].login,
                                c.external_registries[i].token)])

\* Configuration::write_auth_config(): the four files it writes, or the
\* panic of an unwrap or of a slice, which leaves .gitconfig written and
\* .git-credentials created.  The file system is taken not to fail.
write_auth_config(c) ==
    LET gitconfig == <<91, 99, 114, 101, 100, 101, 110, 116, 105, 97, 108, 93>> \o <<10>> \o <<32, 32, 32, 32, 104, 101, 108, 112, 101, 114, 32, 61, 32, 115, 116, 111, 114, 101>> \o <<10>> IN
    IF \/ ~slices_ok(c.web_public_uri)
       \/ \E i \in 1..Len(c.external_registries) : ~slices_ok(c.external_registries[i].index)
    THEN [tag |-> "panic", gitconfig |-> gitconfig, git_credentials |-> <<>>,
          cargo_config |-> <<>>, cargo_credentials |-> <<>>]
    ELSE [tag |-> "Ok",
          gitconfig |-> gitconfig,
          git_credentials |-> git_credentials(c),
          cargo_config |-> cargo_config(c),
          cargo_credentials |-> cargo_credentials(c)]

(* The environments of the model *)

\* The greatest number of an external registry that has a variable set is
\* MaxExternal + 1.
MaxExternal == 2

\* The most starts of the process in a behaviour.
MaxStarts == 2

ExternalFields == {"NAME", "INDEX", "DOCS", "LOGIN", "TOKEN"}

\* The variables set for a registry: none, all, and all but one.
FieldPatterns ==
    {{}, ExternalFields} \cup {ExternalFields \ {f} : f \in ExternalFields}
    \cup {{"NAME"}}

\* The value of a variable of the registry n: "ext<n>",
\* "https://ext<n>.example.com/index", "https://docs.example.com/<n>",
\* "user<n>", "tok<n>".
ExternalValue(n, field) ==
    CASE field = "NAME" -> <<101, 120, 116>> \o <<48 + n>>
      [] field = "INDEX" -> <<104, 116, 116, 112, 115, 58, 47, 47, 101, 120, 116>> \o <<48 + n>> \o <<46, 101, 120, 97, 109, 112, 108, 101, 46, 99, 111, 109, 47, 105, 110, 100, 101, 120>>
      [] field = "DOCS" -> <<104, 116, 116, 112, 115, 58, 47, 47, 100, 111, 99, 115, 46, 101, 120, 97, 109, 112, 108, 101, 46, 99, 111, 109, 47>> \o <<48 + n>>
      [] field = "LOGIN" -> <<117, 115, 101, 114>> \o <<48 + n>>
      [] field = "TOKEN" -> <<116, 111, 107>> \o <<48 + n>>

\* "https://registry.example.com"
GoodUri == <<104, 116, 116, 112, 115, 58, 47, 47, 114, 101, 103, 105, 115, 116, 114, 121, 46, 101, 120, 97, 109, 112, 108, 101, 46, 99, 111, 109>>

\* The value of a required variable.
RequiredValue(name) ==
    IF name = "REGISTRY_WEB_PUBLIC_URI" THEN GoodUri
    ELSE IF name = "REGISTRY_DATA_DIR" THEN <<47, 100, 97, 116, 97>>
    ELSE IF name = "REGISTRY_S3_REGION" THEN <<117, 115, 45, 101, 97, 115, 116, 45, 49>>
    ELSE <<118, 97, 108, 117, 101>>

RequiredSet ==
    {RequiredBefore[i] : i \in 1..Len(RequiredBefore)}
    \cup {RequiredAfter[i] : i \in 1..Len(RequiredAfter)}

\* The environment with the variables of the registries that pattern gives,
\* the required variables but those of missing, and the variables of other.
Environment(pattern, missing, other) ==
    LET pairs == {<<n, f>> : n \in DOMAIN pattern, f \in ExternalFields}
        set == {p \in pairs : p[2] \in pattern[p[1]]}
        external == [v \in {external_var(p[1], p[2]) : p \in set} |->
                        LET p == CHOOSE q \in set : external_var(q[1], q[2]) = v
                        IN  ExternalValue(p[1], p[2])]
        required == [v \in RequiredSet \ missing |-> RequiredValue(v)]
    IN  other @@ external @@ required

\* Patterns for the registries 1 to MaxExternal + 1.
Patterns == [1..(MaxExternal + 1) -> FieldPatterns]
FewPatterns ==
    {p \in Patterns : \A n \in DOMAIN p : p[n] = (IF n = 1 THEN ExternalFields ELSE {})}
    \cup {p \in Patterns : \A n \in DOMAIN p : p[n] = {}}

\* Other values of variables: a public uri without '/' ("localhost"), one
\* that does not parse ("localhost/registry"), a path ("/srv"), an external
\* index without '/' ("ext1"), a service, and the pushing of changes
\* ("TRUE", "yes", "1", "true", "0", "", "true ").
Others ==
    {("REGISTRY_WEB_PUBLIC_URI" :> <<108, 111, 99, 97, 108, 104, 111, 115, 116>>),
     ("REGISTRY_WEB_PUBLIC_URI" :> <<108, 111, 99, 97, 108, 104, 111, 115, 116, 47, 114, 101, 103, 105, 115, 116, 114, 121>>),
     ("REGISTRY_WEB_PUBLIC_URI" :> <<47, 115, 114, 118>>),
     ("REGISTRY_EXTERNAL_1_INDEX" :> <<101, 120, 116, 49>>),
     ("REGISTRY_S3_SERVICE" :> <<101, 120, 101, 99, 117, 116, 101, 45, 97, 112, 105>>),
     ("REGISTRY_GIT_REMOTE_PUSH_CHANGES" :> <<84, 82, 85, 69>>),
     ("REGISTRY_GIT_REMOTE_PUSH_CHANGES" :> <<121, 101, 115>>),
     ("REGISTRY_GIT_REMOTE_PUSH_CHANGES" :> <<49>>),
     ("REGISTRY_GIT_REMOTE_PUSH_CHANGES" :> <<116, 114, 117, 101>>),
     ("REGISTRY_GIT_REMOTE_PUSH_CHANGES" :> <<48>>),
     ("REGISTRY_GIT_REMOTE_PUSH_CHANGES" :> <<>>),
     ("REGISTRY_GIT_REMOTE_PUSH_CHANGES" :> <<116, 114, 117, 101, 32>>)}

Environments ==
    {Environment(p, {}, <<>>) : p \in Patterns}
    \cup {Environment(p, {m}, <<>>) :
            p \in FewPatterns, m \in {"REGISTRY_DATA_DIR", "REGISTRY_S3_URI"}}
    \cup {Environment(p, {}, o) : p \in FewPatterns, o \in Others}

\* The seeds of the generator.
Seeds == {1, 2}

InitConfig ==
    /\ env \in Environments
    /\ rng \in [seed : Seeds, pos : {0}]
    /\ configuration = NoConfiguration
    /\ files = NoFiles
    /\ buffer = <<>>
    /\ upload = NoUpload
    /\ metadata = NoMetadata
    /\ content = <<>>
    /\ validation = NoValidation
    /\ index_data = NoIndexData
    /\ RegistryUser = <<>>
    /\ access = NoAccess
    /\ request = NoRequest
    /\ canonical = NoCanonical
    /\ params = NoParams
    /\ signed = NoSigned
    /\ uri = <<>>
    /\ encoded = NoEncoded
    /\ pc = <<>>
    /\ op = <<>>
    /\ mutex = 0
    /\ index = <<>>
    /\ commits = 0
    /\ blobs = <<>>
    /\ CrateVersion = {}
    /\ pending = <<>>
    /\ outcome = <<>>
    /\ before = <<>>
    /\ ops = 0

notConfigVars ==
    <<envelopeVars, metadataVars, accessVars, signingVars, uriVars, publishVars>>

\* The process starts: Configuration::from_env
FromEnv ==
    /\ configuration.tag = "none"
    /\ configuration' = from_env(env, rng).configuration
    /\ rng' = from_env(env, rng).rng
    /\ UNCHANGED <<env, files, notConfigVars>>

\* Configuration::write_auth_config, of the configuration of the process
WriteAuthConfig ==
    /\ configuration.tag = "Ok"
    /\ files.tag = "none"
    /\ files' = write_auth_config(configuration)
    /\ UNCHANGED <<env, rng, configuration, notConfigVars>>

\* The process ends and is started again in the same environment.
Restart ==
    /\ configuration.tag # "none"
    /\ rng.pos + (16 + 64) <= MaxStarts * (16 + 64)
    /\ configuration' = NoConfiguration
    /\ files' = NoFiles
    /\ UNCHANGED <<env, rng, notConfigVars>>

-----------------------------------------------------------------------------
(* The specifications: one for each part of the program, the variables of  *)
(* the other parts idle                                                    *)

SpecEnvelope == InitEnvelope /\ [][Decode]_vars

SpecMetadata == InitMetadata /\ [][Validate \/ BuildIndexData]_vars

SpecAccess ==
    /\ InitAccess
    /\ [][\/ user_upsert_from_oauth
          \/ user_set_active
          \/ user_set_roles
          \/ CheckIsUser
          \/ CheckIsAdmin]_vars

SpecSigning == InitSigning /\ [][CanonicalRequest]_vars

SpecSign == InitSign /\ [][SignRequest]_vars

SpecUri == InitUri /\ [][EncodeUri]_vars

SpecPublish == InitPublish /\ [][NextPublish]_vars

SpecConfig == InitConfig /\ [][FromEnv \/ WriteAuthConfig \/ Restart]_vars

-----------------------------------------------------------------------------
(* Properties of the envelope decoder (SpecEnvelope)                       *)

\* The two lengths a frame declares, where the frame is long enough to hold
\* them, and the bytes that remain after each.
DeclaredMetaLen(b) == read_u32_le(b, 0).value
RemainingAfterMetaLen(b) == Len(b) - 4
DeclaredBodyLen(b) == read_u32_le(b, 4 + DeclaredMetaLen(b)).value
RemainingAfterBodyLen(b) == Len(b) - 4 - DeclaredMetaLen(b) - 4

\* A length is out of range: the first field is cut, meta_len exceeds what
\* remains, the second field is cut, or body_len exceeds what remains.
OutOfRange(b) ==
    \/ Len(b) < 4
    \/ /\ Len(b) >= 4
       /\ DeclaredMetaLen(b) > RemainingAfterMetaLen(b)
    \/ /\ Len(b) >= 4
       /\ DeclaredMetaLen(b) <= RemainingAfterMetaLen(b)
       /\ RemainingAfterMetaLen(b) - DeclaredMetaLen(b) < 4
    \/ /\ Len(b) >= 4
       /\ DeclaredMetaLen(b) <= RemainingAfterMetaLen(b)
       /\ RemainingAfterMetaLen(b) - DeclaredMetaLen(b) >= 4
       /\ DeclaredBodyLen(b) > RemainingAfterBodyLen(b)

\* C1: whenever a declared length exceeds the bytes that remain in the buffer
\* (buffers too short for a length field included), CrateUploadData::new
\* returns an error value; it does not panic.  (The kind of the error is left
\* open here: any Err satisfies the formula.)
C1_OutOfRangeLengthIsAnError ==
    (upload.tag # "none" /\ OutOfRange(buffer)) => upload.tag = "Err"

\* A well-formed envelope: both length fields present, meta_len bytes of a
\* metadata document, then exactly body_len bytes.
WellFormed(b) ==
    /\ Len(b) >= 8
    /\ DeclaredMetaLen(b) <= Len(b) - 8
    /\ serde_json_from_slice(SubSeq(b, 5, 4 + DeclaredMetaLen(b))).tag = "Ok"
    /\ DeclaredBodyLen(b) = RemainingAfterBodyLen(b)

\* C5: on a well-formed envelope CrateUploadData::new returns Ok, its metadata
\* parsed from the bytes [4, 4 + meta_len) and its content the body_len bytes
\* after the second length field.
C5_WellFormedEnvelopeDecodes ==
    (upload.tag # "none" /\ WellFormed(buffer)) =>
        /\ upload.tag = "Ok"
        /\ upload.metadata.json =
             [i \in 1..DeclaredMetaLen(buffer) |-> buffer[4 + i]]
        /\ upload.content =
             [i \in 1..DeclaredBodyLen(buffer) |->
                 buffer[4 + DeclaredMetaLen(buffer) + 4 + i]]

\* A well-formed envelope with an archive of several bytes has been decoded.
C5_Witness ==
    /\ upload.tag = "Ok"
    /\ WellFormed(buffer)
    /\ DeclaredBodyLen(buffer) = MaxBody
    /\ Len(upload.content) = MaxBody

\* A well-formed envelope with an archive of no bytes has been decoded.
EmptyArchiveDecoded ==
    /\ upload.tag = "Ok"
    /\ WellFormed(buffer)
    /\ DeclaredBodyLen(buffer) = 0

-----------------------------------------------------------------------------
(* Properties of the metadata checks and of the index record (SpecMetadata) *)

AsciiLetters == (65..90) \cup (97..122)
AsciiDigits == 48..57

\* ^[A-Za-z][A-Za-z0-9_-]{0,63}$
MatchesNameRegex(name) ==
    /\ Len(name) >= 1
    /\ Len(name) <= 64
    /\ name[1] \in AsciiLetters
    /\ \A i \in 2..Len(name) : name[i] \in AsciiLetters \cup AsciiDigits \cup {45, 95}

\* The errors of the name check.
NameErrors ==
    {"Name must not be empty", "Name must not exceed 64 characters",
     "Name must start with an ASCII letter", "Name must only contain alphanumeric, -, _"}

NameCheckFailed ==
    validation.tag = "Err" /\ validation.details \in NameErrors

\* C2: validate passes the name check exactly for the names that match
\* ^[A-Za-z][A-Za-z0-9_-]{0,63}$, and the failure of the name check is an
\* invalid-request error.
C2_NameAcceptedIffRegex ==
    validation.tag # "none" =>
        /\ NameCheckFailed <=> ~MatchesNameRegex(metadata.name)
        /\ NameCheckFailed => validation.kind = "invalid-request"

\* A name of 64 chars has passed.
C2_Witness ==
    /\ validation.tag = "Ok"
    /\ Len(metadata.name) = 64

\* A name of 65 chars, all of them letters, has been refused.
LongNameRefused ==
    /\ NameCheckFailed
    /\ Len(metadata.name) = 65
    /\ \A i \in 1..65 : metadata.name[i] \in AsciiLetters

DependencyKinds == {"normal", "dev", "build"}

\* C6: validate fails, with an invalid-request error, exactly when the name
\* check fails or a dependency has a kind other than normal, dev and build;
\* otherwise it succeeds.
C6_ValidateFailsIffNameOrKind ==
    validation.tag # "none" =>
        /\ validation.tag \in {"Ok", "Err"}
        /\ validation.tag = "Err" <=>
             \/ ~MatchesNameRegex(metadata.name)
             \/ \E i \in 1..Len(metadata.deps) : metadata.deps[i].kind \notin DependencyKinds
        /\ validation.tag = "Err" => validation.kind = "invalid-request"

\* A good name whose second dependency alone has a bad kind has been refused.
C6_Witness ==
    /\ validation.tag = "Err"
    /\ MatchesNameRegex(metadata.name)
    /\ Len(metadata.deps) = 2
    /\ metadata.deps[1].kind \in DependencyKinds
    /\ metadata.deps[2].kind \notin DependencyKinds

\* C7: the index record has the name, vers, features and links of the
\* metadata, the lowercase hex SHA-256 of the content as cksum, yanked false,
\* and the dependencies of the metadata in their order, field for field
\* (version_req as req, explicit_name_in_toml as package).
C7_IndexRecordMirrorsUpload ==
    index_data.tag = "built" =>
        LET r == index_data.record IN
        /\ r.name = metadata.name
        /\ r.vers = metadata.vers
        /\ r.features = metadata.features
        /\ r.links = metadata.links
        /\ r.cksum = [digest |-> "SHA-256", encoding |-> "hex-lower", of |-> content]
        /\ r.yanked = FALSE
        /\ Len(r.deps) = Len(metadata.deps)
        /\ \A i \in 1..Len(metadata.deps) :
             /\ r.deps[i].name = metadata.deps[i].name
             /\ r.deps[i].req = metadata.deps[i].version_req
             /\ r.deps[i].features = metadata.deps[i].features
             /\ r.deps[i].optional = metadata.deps[i].optional
             /\ r.deps[i].default_features = metadata.deps[i].default_features
             /\ r.deps[i].target = metadata.deps[i].target
             /\ r.deps[i].kind = metadata.deps[i].kind
             /\ r.deps[i].registry = metadata.deps[i].registry
             /\ r.deps[i].package = metadata.deps[i].explicit_name_in_toml

\* The record of an upload with two different dependencies, one of them
\* renamed, and an archive of some bytes has been built.
C7_Witness ==
    /\ index_data.tag = "built"
    /\ Len(metadata.deps) = 2
    /\ metadata.deps[1] # metadata.deps[2]
    /\ metadata.deps[2].explicit_name_in_toml # None
    /\ content # <<>>

-----------------------------------------------------------------------------
(* Properties of the access checks (SpecAccess)                            *)

\* The rows of the table that are active and have the email.
ActiveRowsOf(principal) ==
    {i \in 1..Len(RegistryUser) :
        RegistryUser[i].email = principal /\ RegistryUser[i].isActive}

\* C3: check_is_user returns an id only when an active user has the email of
\* the principal, and that user's id; for a principal without an active user
\* (deactivated, or unknown) it fails with unauthorized and returns no id.
C3_UserIdOnlyForActiveUser ==
    access.op = "check_is_user" =>
        /\ access.result.tag \in {"Ok", "Err"}
        /\ access.result.tag = "Ok" =>
             \E i \in ActiveRowsOf(access.principal) :
                 RegistryUser[i].id = access.result.id
        /\ ActiveRowsOf(access.principal) = {} =>
             /\ access.result.tag = "Err"
             /\ access.result.error = "unauthorized"

\* The check of a deactivated user, next to an active one, has failed.
C3_Witness ==
    /\ access.op = "check_is_user"
    /\ access.result.tag = "Err"
    /\ \E i \in 1..Len(RegistryUser) :
         RegistryUser[i].email = access.principal /\ ~RegistryUser[i].isActive
    /\ \E i \in 1..Len(RegistryUser) : RegistryUser[i].isActive

\* The check of an active user has returned its id.
ActiveUserFound ==
    /\ access.op = "check_is_user"
    /\ access.result.tag = "Ok"
    /\ access.result.id = 2

\* The roles string has a tag admin: between two separators (a comma or an
\* end of the string) there is nothing but the word admin with white space
\* around it.
HasAdminTag(roles) ==
    \E from \in 1..(Len(roles) + 1), to \in 0..Len(roles) :
        /\ from <= to
        /\ from = 1 \/ roles[from - 1] = 44
        /\ to = Len(roles) \/ roles[to + 1] = 44
        /\ \A k \in from..to : roles[k] # 44
        /\ \E a \in from..to :
             /\ a + 4 <= to
             /\ roles[a] = 97 /\ roles[a + 1] = 100 /\ roles[a + 2] = 109
             /\ roles[a + 3] = 105 /\ roles[a + 4] = 110
             /\ \A k \in from..(a - 1) : is_whitespace(roles[k])
             /\ \A k \in (a + 5)..to : is_whitespace(roles[k])

\* C4: check_is_admin succeeds exactly when the user of the uid exists and has
\* the tag admin among its roles; otherwise, for an unknown uid too, it fails
\* with forbidden.
C4_AdminIffAdminTag ==
    access.op = "check_is_admin" =>
        /\ access.result.tag = "Ok" <=>
             \E i \in 1..Len(RegistryUser) :
                 RegistryUser[i].id = access.uid /\ HasAdminTag(RegistryUser[i].roles)
        /\ access.result.tag # "Ok" =>
             /\ access.result.tag = "Err"
             /\ access.result.error = "forbidden"

\* The check has succeeded for a user whose admin tag is one of several,
\* written with white space.
C4_Witness ==
    /\ access.op = "check_is_admin"
    /\ access.result.tag = "Ok"
    /\ \E i \in 1..Len(RegistryUser) :
         /\ RegistryUser[i].id = access.uid
         /\ \E k \in 1..Len(RegistryUser[i].roles) : RegistryUser[i].roles[k] = 44
         /\ \E k \in 1..Len(RegistryUser[i].roles) : RegistryUser[i].roles[k] = 32

\* The check has failed for a uid that is no row of the table.
UnknownUidForbidden ==
    /\ access.op = "check_is_admin"
    /\ access.uid > Len(RegistryUser)
    /\ Len(RegistryUser) > 0
    /\ access.result.error = "forbidden"

-----------------------------------------------------------------------------
(* Properties of the canonical request (SpecSigning)                       *)

\* The lines of the canonical request that was hashed.
CanonicalLines == split(canonical.canonical_request, 10)

\* The parameters of its query line, each "key=value" cut at its first '='
\* (an encoded key has no '=').
QueryItems ==
    IF CanonicalLines[3] = <<>> THEN <<>> ELSE split(CanonicalLines[3], 38)

FirstEquals(item) == CHOOSE i \in 1..Len(item) : item[i] = 61 /\ \A j \in 1..(i - 1) : item[j] # 61
KeyOf(item) == SubSeq(item, 1, FirstEquals(item) - 1)
ValueOf(item) == SubSeq(item, FirstEquals(item) + 1, Len(item))

\* C8: in the canonical request the query parameters are ordered by their
\* encoded key and, for equal keys, by their encoded value.
C8_QuerySortedByKeyThenValue ==
    canonical.tag = "Ok" =>
        \A i \in 1..(Len(QueryItems) - 1) :
            \/ StrLess(KeyOf(QueryItems[i]), KeyOf(QueryItems[i + 1]))
            \/ /\ KeyOf(QueryItems[i]) = KeyOf(QueryItems[i + 1])
               /\ StrLeq(ValueOf(QueryItems[i]), ValueOf(QueryItems[i + 1]))

\* C9: the string that is hashed is, one per line: the method, the encoded
\* path, the query string (empty without parameters, else the encoded
\* "key=value" of each parameter joined by '&'), a line name:value for each
\* header with the name in lower case, the lines in the order of the names,
\* an empty line, the same names in the same order joined by ';', and the
\* payload hash.
C9_CanonicalRequestLayout ==
    canonical.tag = "Ok" =>
        LET lines == CanonicalLines
            hs == initial_headers(request)
            n == Len(hs)
            q == Len(request.query)
            Name(j) == to_lowercase(hs[j].name)
            Pair(j) == encode_uri(request.query[j][1]).s \o <<61>>
                       \o encode_uri(request.query[j][2]).s
        IN  /\ Len(lines) = n + 6
            /\ lines[1] = request.method
            /\ lines[2] = encode_uri(request.path).s
            /\ q = 0 => lines[3] = <<>>
            /\ q > 0 =>
                 /\ Len(QueryItems) = q
                 /\ \E g \in Permutations(1..q) : \A i \in 1..q : QueryItems[i] = Pair(g[i])
            /\ \E f \in Permutations(1..n) :
                 /\ \A i \in 1..n : lines[3 + i] = Name(f[i]) \o <<58>> \o hs[f[i]].value
                 /\ \A i \in 1..(n - 1) : StrLess(Name(f[i]), Name(f[i + 1]))
                 /\ lines[n + 5] = Join([i \in 1..n |-> Name(f[i])], <<59>>)
            /\ lines[n + 4] = <<>>
            /\ lines[n + 6] = request.payload_hash

\* A request with a query of two parameters and four headers, which the
\* caller did not insert in the order of their names, has been put in
\* canonical form.
C9_Witness ==
    /\ canonical.tag = "Ok"
    /\ Len(request.query) = 2
    /\ Len(initial_headers(request)) = 4
    /\ StrLess(request.headers[2].name, request.headers[1].name)

-----------------------------------------------------------------------------
(* Properties of encode_uri (SpecUri)                                      *)

\* The bytes of the UTF-8 encoding of the scalar value c.
utf8(c) ==
    IF c < 128 THEN <<c>>
    ELSE IF c < 2048 THEN <<192 + (c \div 64), 128 + (c % 64)>>
    ELSE IF c < 65536
    THEN <<224 + (c \div 4096), 128 + ((c \div 64) % 64), 128 + (c % 64)>>
    ELSE <<240 + (c \div 262144), 128 + ((c \div 4096) % 64),
           128 + ((c \div 64) % 64), 128 + (c % 64)>>

RECURSIVE str_bytes(_)
str_bytes(s) == IF s = <<>> THEN <<>> ELSE utf8(s[1]) \o str_bytes(Tail(s))

\* A-Z a-z 0-9 / - _ . ~
PassthroughBytes == AsciiLetters \cup AsciiDigits \cup {47, 45, 95, 46, 126}

HexDigits == <<48, 49, 50, 51, 52, 53, 54, 55, 56, 57, 65, 66, 67, 68, 69, 70>>

\* The encoding of a string of bytes: a byte of the passthrough set as it
\* is, any other byte as '%' and its two hexadecimal digits in upper case.
RECURSIVE PercentEncoded(_)
PercentEncoded(bytes) ==
    IF bytes = <<>> THEN <<>>
    ELSE (IF bytes[1] \in PassthroughBytes
          THEN <<bytes[1]>>
          ELSE <<37, HexDigits[(bytes[1] \div 16) + 1], HexDigits[(bytes[1] % 16) + 1]>>)
         \o PercentEncoded(Tail(bytes))

\* C10: encode_uri returns, for every string, its bytes with those of the
\* passthrough set unchanged and every other byte as %XX in upper case.
C10_EveryOtherByteIsPercentEncoded ==
    encoded.tag # "none" =>
        /\ encoded.tag = "Ok"
        /\ encoded.s = PercentEncoded(str_bytes(uri))

\* A string made only of the characters A-Z a-z 0-9 / - _ . ~
OnlyPassthrough(s) == \A i \in 1..Len(s) : s[i] \in PassthroughBytes

\* C11: encode_uri is idempotent on strings made only of passthrough
\* characters: such a string is returned as it is, and encoding the result
\* again returns the same result.
C11_IdempotentOnPassthrough ==
    (encoded.tag # "none" /\ OnlyPassthrough(uri)) =>
        /\ encoded = [tag |-> "Ok", s |-> uri]
        /\ encode_uri(encoded.s) = encoded

\* A string of passthrough characters, the '~' among them, has been encoded.
C11_Witness ==
    /\ encoded.tag = "Ok"
    /\ uri = <<126, 97>>
    /\ encoded.s = uri

\* Outside the passthrough set the encoding is not idempotent: the '%' of
\* an escape is escaped again.
EscapeIsEncodedAgain ==
    /\ encoded.tag = "Ok"
    /\ uri = <<32>>
    /\ encode_uri(encoded.s).s = <<37, 50, 53, 50, 48>>

-----------------------------------------------------------------------------
(* Properties of sign_request (SpecSign)                                   *)

\* The credential scope of the string to sign, date/region/service/
\* aws4_request: its third line, cut at '/'.
ScopeOfStringToSign == split(split(signed.string_to_sign.text, 10)[3], 47)

\* The message of the third HMAC of the key derivation, whose key is the
\* date-region key.
ServiceOfSigningKey == signed.signing_key.key.message

\* The service a request is to be signed for: "s3" when none is configured.
ExpectedService ==
    IF params.service = None THEN <<115, 51>> ELSE params.service[1]

\* C12: sign_request uses the service name s3 in the string to sign and in
\* the derivation of the signing key when S3Params.service is absent, and
\* the configured service name in both places when it is present.
C12_ServiceDefaultsToS3 ==
    signed.tag = "Ok" =>
        /\ Len(ScopeOfStringToSign) = 4
        /\ ScopeOfStringToSign[3] = ExpectedService
        /\ ServiceOfSigningKey = ExpectedService

\* A request signed without a configured service.
C12_Witness ==
    /\ signed.tag = "Ok"
    /\ params.service = None
    /\ ScopeOfStringToSign[3] = <<115, 51>>
    /\ ServiceOfSigningKey = <<115, 51>>

\* A request signed for the configured service execute-api.
ConfiguredServiceSigned ==
    /\ signed.tag = "Ok"
    /\ params.service = Some(<<101, 120, 101, 99, 117, 116, 101, 45, 97, 112, 105>>)
    /\ ScopeOfStringToSign[3] = params.service[1]
    /\ ServiceOfSigningKey = params.service[1]

-----------------------------------------------------------------------------
(* Properties of the Publish Pipeline (SpecPublish)                        *)

\* The steps at which an operation has taken the mutex and not finished.
MutatingSteps == {"locked", "uploaded", "appended", "persisted", "rewritten"}

\* The steps between the index commit of an operation and the commit of its
\* transaction.
BetweenCommits == {"appended", "persisted", "rewritten"}

\* C13: at most one publish or yank operation mutates the index repository
\* at any time: an operation is at a mutating step exactly when it holds the
\* Index mutex, so that no two are, and the mutex is still held by it
\* between its index commit and the commit of its transaction.
C13_OneMutatorAtATime ==
    /\ \A p \in DOMAIN pc : pc[p] \in MutatingSteps <=> mutex = p
    /\ \A p, q \in DOMAIN pc :
          (pc[p] \in MutatingSteps /\ pc[q] \in MutatingSteps) => p = q
    /\ \A p \in DOMAIN pc : pc[p] \in BetweenCommits => mutex = p

\* A client has committed to the index and not yet to the Metadata Store,
\* while the other waits for the mutex.
C13_Witness ==
    /\ DOMAIN pc = Clients
    /\ \E p, q \in Clients :
          /\ pc[p] = "persisted"
          /\ mutex = p
          /\ pc[q] = "checked"

\* The lines of the index for (name, vers), and the rows of the table.
LinesOf(name, vers) == {i \in 1..Len(index) : index[i].name = name /\ index[i].vers = vers}
RowsOf(name, vers) == {r \in CrateVersion : r.name = name /\ r.vers = vers}

\* I1 (index <-> db): every row has exactly one line for its (name, vers),
\* with the same cksum and yanked flag, and every line exactly one such row.
IndexMatchesTable ==
    /\ \A r \in CrateVersion :
          /\ Cardinality(LinesOf(r.name, r.vers)) = 1
          /\ \A i \in LinesOf(r.name, r.vers) :
                index[i].cksum = r.cksum /\ index[i].yanked = r.yanked
    /\ \A i \in 1..Len(index) :
          /\ Cardinality(RowsOf(index[i].name, index[i].vers)) = 1
          /\ \A r \in RowsOf(index[i].name, index[i].vers) :
                r.cksum = index[i].cksum /\ r.yanked = index[i].yanked

\* C14: after any sequence of publish and yank/unyank operations, failed and
\* rolled back ones included, that is whenever no operation is under way in
\* the stores, the CrateVersion rows and the index lines match one to one.
C14_IndexMatchesTableAtRest ==
    mutex = 0 => IndexMatchesTable

\* A version has been published and yanked, and a publish has been rolled
\* back after its index commit.
C14_Witness ==
    /\ mutex = 0
    /\ \E r \in CrateVersion : r.yanked
    /\ \E p \in DOMAIN outcome :
          op[p].kind = "publish" /\ outcome[p] = Response("upstream-failure", 9)
    /\ IndexMatchesTable

\* While an operation holds the mutex the index may be ahead of the table.
IndexAheadUnderMutex ==
    /\ mutex # 0
    /\ ~IndexMatchesTable

\* Client p's publish fails in this step at the blob upload (step 6) or at
\* the index append/push (step 7).
FailsAtUploadOrAppend(p) ==
    /\ op[p].kind = "publish"
    /\ pc[p] \in {"locked", "uploaded"}
    /\ pc'[p] = "done"

\* C15: when a publish fails at the blob upload, or at the index append/push
\* after a successful upload, it ends in an error with the uploaded object
\* deleted, no CrateVersion row, no new index line and no new index commit:
\* the three stores are as the publish found them.
C15_FailedPublishLeavesNoTrace ==
    [][\A p \in DOMAIN pc :
          FailsAtUploadOrAppend(p) =>
              /\ outcome'[p].error \notin {"", "none"}
              /\ index' = before[p].index
              /\ commits' = before[p].commits
              /\ CrateVersion' = before[p].CrateVersion
              /\ blobs' = before[p].blobs]_vars

\* A publish has failed at the index append after its upload, and the stores
\* are empty as it found them.
FailedAppendLeftNoTrace ==
    /\ \E p \in DOMAIN pc :
          /\ pc[p] = "done"
          /\ outcome[p] = Response("upstream-failure", 7)
          /\ before[p] = [NoStores EXCEPT !.commits = << <<>> >>]
    /\ blobs = {}
    /\ index = <<>>
    /\ CrateVersion = {}

\* Client p's publish of a (name, vers) that has a row, yanked or not, takes
\* its next step.
PublishesExistingVersion(p) ==
    /\ op[p].kind = "publish"
    /\ pc[p] = "validated"
    /\ RowsOf(op[p].name, op[p].vers) # {}
    /\ pc'[p] # pc[p]

\* C16: publishing a (name, vers) pair that already exists, whether or not
\* that version is yanked, is rejected with a conflict error and leaves the
\* index lines, the stored blob and the CrateVersion rows unchanged.
C16_DuplicateVersionIsAConflict ==
    [][\A p \in DOMAIN pc :
          PublishesExistingVersion(p) =>
              /\ pc'[p] = "done"
              /\ outcome'[p].error = "conflict"
              /\ index' = index
              /\ commits' = commits
              /\ blobs' = blobs
              /\ CrateVersion' = CrateVersion]_vars

\* The publish of a version that is yanked has been rejected as a conflict.
C16_Witness ==
    \E p \in DOMAIN pc :
        /\ pc[p] = "done"
        /\ op[p].kind = "publish"
        /\ outcome[p] = Response("conflict", 4)
        /\ \E r \in RowsOf(op[p].name, op[p].vers) : r.yanked

-----------------------------------------------------------------------------
(* Properties of Configuration (SpecConfig)                                *)

\* The name of a variable of the external registry n.
ExternalVarName(n, field) == "REGISTRY_EXTERNAL_" \o ToString(n) \o "_" \o field

\* k: the smallest N >= 1 whose REGISTRY_EXTERNAL_N_NAME is not set.
FirstUnnamed ==
    CHOOSE k \in 1..(MaxExternal + 2) :
        /\ ExternalVarName(k, "NAME") \notin DOMAIN env
        /\ \A n \in 1..(k - 1) : ExternalVarName(n, "NAME") \in DOMAIN env

\* The variables of the registry n, other than its name, that are not set.
MissingOf(n) ==
    {ExternalVarName(n, f) : f \in {"INDEX", "DOCS", "LOGIN", "TOKEN"}} \ DOMAIN env

\* The registries below k that lack a variable.
Incomplete == {n \in 1..(FirstUnnamed - 1) : MissingOf(n) # {}}

\* The registry n as the environment describes it.
RegistryOfEnv(n) ==
    [name |-> env[ExternalVarName(n, "NAME")],
     index |-> env[ExternalVarName(n, "INDEX")],
     docs_root |-> env[ExternalVarName(n, "DOCS")],
     login |-> env[ExternalVarName(n, "LOGIN")],
     token |-> env[ExternalVarName(n, "TOKEN")]]

\* C17: from_env collects the external registries numbered 1, 2, ..., k-1 in
\* that order, k being the smallest N >= 1 whose REGISTRY_EXTERNAL_N_NAME is
\* not set; registries numbered above k are ignored even when their variables
\* are set; and a registry whose NAME is set but whose INDEX, DOCS, LOGIN or
\* TOKEN is missing makes from_env fail with a missing-variable error that
\* names a missing variable of it.  (The variables that from_env requires
\* before the enumeration are set.)
C17_ExternalRegistriesUpToFirstGap ==
    (/\ configuration.tag # "none"
     /\ \A i \in 1..Len(RequiredBefore) : RequiredBefore[i] \in DOMAIN env) =>
        IF Incomplete # {}
        THEN /\ configuration.tag = "Err"
             /\ \E n \in Incomplete : configuration.var_name \in MissingOf(n)
        ELSE /\ configuration.tag = "Err" =>
                  configuration.var_name \notin
                      {ExternalVarName(n, f) : n \in 1..(MaxExternal + 2), f \in ExternalFields}
             /\ configuration.tag = "Ok" =>
                  configuration.external_registries =
                      [n \in 1..(FirstUnnamed - 1) |-> RegistryOfEnv(n)]

\* The registry 1 is collected and the registry 3 ignored, although its
\* variables are set, because the registry 2 has no name.
C17_Witness ==
    /\ configuration.tag = "Ok"
    /\ FirstUnnamed = 2
    /\ ExternalFields = {f \in ExternalFields : ExternalVarName(3, f) \in DOMAIN env}
    /\ Len(configuration.external_registries) = 1
    /\ configuration.external_registries[1].name = <<101, 120, 116, 49>>

\* A second registry without its token makes from_env fail.
MissingTokenRefused ==
    /\ configuration.tag = "Err"
    /\ configuration.var_name = "REGISTRY_EXTERNAL_2_TOKEN"
    /\ "REGISTRY_EXTERNAL_2_NAME" \in DOMAIN env

\* A-Z a-z 0-9
AlphanumericChars == (65..90) \cup (97..122) \cup (48..57)

\* The value of a character of the base64 alphabet.
Base64Value(c) ==
    IF c \in 65..90 THEN c - 65
    ELSE IF c \in 97..122 THEN c - 71
    ELSE IF c \in 48..57 THEN c + 4
    ELSE IF c = 43 THEN 62
    ELSE 63

\* The bytes that a base64 text with padding stands for.
RECURSIVE Base64Decoded(_)
Base64Decoded(t) ==
    IF Len(t) < 4 THEN <<>>
    ELSE LET a == Base64Value(t[1])
             b == Base64Value(t[2])
             c == Base64Value(t[3])
             d == Base64Value(t[4])
         IN  <<(a * 4) + (b \div 16)>>
             \o (IF t[3] = 61 THEN <<>> ELSE <<((b % 16) * 16) + (c \div 4)>>)
             \o (IF t[3] = 61 \/ t[4] = 61 THEN <<>> ELSE <<((c % 4) * 64) + d>>)
             \o Base64Decoded(SubSeq(t, 5, Len(t)))

\* login:token of the self-service credential of the configuration.
SelfServicePair ==
    configuration.self_service_login \o <<58>> \o configuration.self_service_token

\* The first line of the git credentials file is the public uri with
\* login:token@ put in after its "//" (after its first two characters past
\* the first '/' in general).
GitCredentialHasPair ==
    LET line == split(files.git_credentials, 10)[1]
        public == configuration.web_public_uri
    IN  \E k \in 1..Len(public) :
            /\ public[k] = 47
            /\ \A j \in 1..(k - 1) : public[j] # 47
            /\ line = SubSeq(public, 1, k + 1) \o SelfServicePair \o <<64>>
                      \o SubSeq(public, k + 2, Len(public))

\* The cargo credentials file gives the registry local the token
\* Basic base64(login:token).
CargoCredentialHasPair ==
    LET lines == split(files.cargo_credentials, 10)
        head == <<116, 111, 107, 101, 110, 32, 61, 32, 34, 66, 97, 115, 105, 99, 32>>
    IN  /\ Len(lines) >= 2
        /\ lines[1] = <<91, 114, 101, 103, 105, 115, 116, 114, 105, 101, 115, 46, 108, 111, 99, 97, 108, 93>>
        /\ Len(lines[2]) > Len(head) + 1
        /\ SubSeq(lines[2], 1, Len(head)) = head
        /\ lines[2][Len(lines[2])] = 34
        /\ Base64Decoded(SubSeq(lines[2], Len(head) + 1, Len(lines[2]) - 1))
               = SelfServicePair

\* C18: the self-service credential of from_env is generated anew on each
\* call, from the draws its call takes from the generator, as an alphanumeric
\* login of exactly 16 characters and an alphanumeric token of exactly 64
\* characters, and write_auth_config writes that pair into the git
\* credentials file (as login:token@ in the public uri) and into the cargo
\* credentials file (as Basic base64(login:token) for the registry local).
C18_SelfServiceCredential ==
    /\ configuration.tag = "Ok" =>
          /\ Len(configuration.self_service_login) = 16
          /\ Len(configuration.self_service_token) = 64
          /\ \A i \in 1..16 : configuration.self_service_login[i] \in AlphanumericChars
          /\ \A i \in 1..64 : configuration.self_service_token[i] \in AlphanumericChars
          /\ rng.pos >= 80
          /\ configuration.self_service_login =
                [i \in 1..16 |-> sample(rng.seed, rng.pos - 80 + i)]
          /\ configuration.self_service_token =
                [i \in 1..64 |-> sample(rng.seed, rng.pos - 64 + i)]
    /\ (configuration.tag = "Ok" /\ files.tag = "Ok") =>
          /\ GitCredentialHasPair
          /\ CargoCredentialHasPair

\* The files are written in the second run of the process, with a credential
\* that is not the one of the first run.
C18_Witness ==
    /\ configuration.tag = "Ok"
    /\ files.tag = "Ok"
    /\ rng.pos = 160
    /\ configuration.self_service_login # [i \in 1..16 |-> sample(rng.seed, i)]
    /\ GitCredentialHasPair
    /\ CargoCredentialHasPair
    /\ SubSeq(files.git_credentials, 1, 8) = <<104, 116, 116, 112, 115, 58, 47, 47>>

-----------------------------------------------------------------------------
(* C19: the warnings of a successful validation                            *)

\* The elements of a list.
Listed(list) == {list[i] : i \in 1..Len(list)}

\* The source names no category and no badge that the registry knows, so
\* each one a crate declares is unknown to it.
UnknownCategories(md) == Listed(md.categories)

UnknownBadges(md) == md.badges

\* A repository URL in canonical form is absent or starts with https://.
CanonicalRepository(md) ==
    \/ md.repository = ""
    \/ md.repository \in {"https://host/crate"}

\* C19: on a successful validation the result of validate carries the
\* non-fatal warnings: the unknown categories of the metadata are listed in
\* invalid_categories, its unknown badges in invalid_badges, and a repository
\* URL that is not canonical gives a notice in other.
C19_WarningsAccumulated ==
    validation.tag = "Ok" =>
        LET warnings == validation.warnings[1] IN
        /\ Listed(warnings.invalid_categories) = UnknownCategories(metadata)
        /\ Listed(warnings.invalid_badges) = UnknownBadges(metadata)
        /\ ~CanonicalRepository(metadata) => warnings.other # <<>>

\* A crate with a category, a badge and a repository is accepted and the
\* result has the warnings of CrateUploadResult::default(), which are empty.
AcceptedWithoutWarnings ==
    /\ validation.tag = "Ok"
    /\ metadata.categories # <<>>
    /\ metadata.badges # {}
    /\ metadata.repository # ""
    /\ validation.warnings[1] = CrateUploadWarnings_default

-----------------------------------------------------------------------------
(* C20: what the outcome of validate depends on                            *)

\* The kinds of a list of dependencies, in order.
KindsOf(deps) == [i \in 1..Len(deps) |-> deps[i].kind]

\* A dependency with the same kind and every other field changed.
OtherDependency(d) ==
    [name |-> "other", version_req |-> "*", features |-> <<"x">>,
     optional |-> ~d.optional, default_features |-> ~d.default_features,
     target |-> Some("cfg(unix)"), kind |-> d.kind,
     registry |-> Some("https://example.com/index"),
     explicit_name_in_toml |-> Some("renamed")]

\* Values of the fields other than name and deps: those of OtherFields and
\* an empty vers, a vers with a leading v, features and links of other shapes.
OtherValues ==
    OtherFields
    \cup
    {[vers |-> v, features |-> {<<"default", <<>> >>}, links |-> Some(""),
      categories |-> <<"science", "science">>, badges |-> {"travis-ci"},
      repository |-> "https://host/crate"] : v \in {"", "v1", "1.0.0"}}

\* The metadata values that agree with md on the name and on the list of the
\* kinds of the dependencies.
SameNameAndKinds(md) ==
    {CrateMetadata(md.name, d, o) :
        d \in {md.deps, [i \in 1..Len(md.deps) |-> OtherDependency(md.deps[i])]},
        o \in OtherValues}

\* C20: the outcome of validate depends only on the name and on the kinds of
\* the dependencies: every metadata value that agrees with the validated one
\* on the name and on the list of dependency kinds gets the same accept or
\* reject result with the same error, whatever its vers, features, links,
\* categories, badges, repository and the other fields of its dependencies.
C20_OutcomeDependsOnNameAndKinds ==
    validation.tag # "none" =>
        \A other \in SameNameAndKinds(metadata) :
            /\ KindsOf(other.deps) = KindsOf(metadata.deps)
            /\ validate(other).tag = validation.tag
            /\ validate(other).kind = validation.kind
            /\ validate(other).details = validation.details

\* A crate whose vers is not a semantic version is accepted, and it has a
\* dependency, so that the values it is compared with differ in the
\* dependency too.
C20_Witness ==
    /\ validation.tag = "Ok"
    /\ metadata.vers = "not-a-version"
    /\ metadata.deps # <<>>
    /\ \E other \in SameNameAndKinds(metadata) :
          /\ other.vers = "0.1.0"
          /\ other.deps # metadata.deps

\* A crate is refused for the kind of a dependency whatever its vers is.
RefusedWhateverTheVers ==
    /\ validation.tag = "Err"
    /\ metadata.vers = "0.1.0"
    /\ metadata.deps # <<>>
    /\ validate_name(metadata.name).tag = "Ok"

-----------------------------------------------------------------------------
(* C21: REGISTRY_GIT_REMOTE_PUSH_CHANGES                                   *)

PushChangesVar == "REGISTRY_GIT_REMOTE_PUSH_CHANGES"

\* The environment without the variable.
WithoutPushChanges(e) == [v \in DOMAIN e \ {PushChangesVar} |-> e[v]]

\* from_env succeeds or fails as it does without the variable, and on the
\* same variable.
PushChangesNeverFails ==
    configuration.tag # "none" =>
        LET without == from_env(WithoutPushChanges(env), [seed |-> rng.seed, pos |-> 0]).configuration
        IN  /\ configuration.tag = without.tag
            /\ configuration.var_name = without.var_name
            /\ configuration.var_name # PushChangesVar

\* The value is true written in any mix of upper and lower case.
TrueInAnyCase(value) ==
    /\ Len(value) = 4
    /\ value[1] \in {116, 84}
    /\ value[2] \in {114, 82}
    /\ value[3] \in {117, 85}
    /\ value[4] \in {101, 69}

\* C21 as stated: remote_push_changes is true if and only if the variable is
\* set to 1 or to true, and false when it is unset or holds any other string;
\* from_env does not fail because of the variable.
C21_PushChangesIffOneOrTrue ==
    /\ PushChangesNeverFails
    /\ configuration.tag = "Ok" =>
          (configuration.index_config.remote_push_changes
              <=> /\ PushChangesVar \in DOMAIN env
                  /\ env[PushChangesVar] \in {<<49>>, <<116, 114, 117, 101>>})

\* C21 amended: remote_push_changes is true if and only if the variable is
\* set to 1 or to true in any mix of ASCII upper and lower case (TRUE, True),
\* and false when it is unset or holds any other string; from_env does not
\* fail because of the variable.
C21_PushChangesIffOneOrTrueInAnyCase ==
    /\ PushChangesNeverFails
    /\ configuration.tag = "Ok" =>
          (configuration.index_config.remote_push_changes
              <=> /\ PushChangesVar \in DOMAIN env
                  /\ \/ env[PushChangesVar] = <<49>>
                     \/ TrueInAnyCase(env[PushChangesVar]))

\* TRUE in upper case turns the pushing of changes on.
C21_Witness ==
    /\ configuration.tag = "Ok"
    /\ PushChangesVar \in DOMAIN env
    /\ env[PushChangesVar] = <<84, 82, 85, 69>>
    /\ configuration.index_config.remote_push_changes

\* "true " with a trailing blank, and the empty string, leave it off.
OtherStringLeavesPushOff ==
    /\ configuration.tag = "Ok"
    /\ PushChangesVar \in DOMAIN env
    /\ env[PushChangesVar] \in {<<116, 114, 117, 101, 32>>, <<>>}
    /\ ~configuration.index_config.remote_push_changes

\* Without the variable it is off.
UnsetLeavesPushOff ==
    /\ configuration.tag = "Ok"
    /\ PushChangesVar \notin DOMAIN env
    /\ ~configuration.index_config.remote_push_changes

-----------------------------------------------------------------------------
(* C22, C23: the Authorization header of sign_request                      *)

\* The text of the Authorization header the caller is left with.
AuthorizationText ==
    LET i == CHOOSE j \in 1..Len(signed.headers) : signed.headers[j].name = authorization
    IN  signed.headers[i].value.text

\* Its credential, access key/date/region/service/aws4_request, cut at '/':
\* what stands between "Credential=" and the first ','.
CredentialOfAuthorization ==
    split(split(split(AuthorizationText, 44)[1], 61)[2], 47)

\* C22: the service segment of the Credential scope in the Authorization
\* header is the service name of the string to sign and of the derivation of
\* the signing key, for every S3Params.
C22_CredentialServiceIsTheSignedService ==
    signed.tag = "Ok" =>
        /\ Len(CredentialOfAuthorization) = 5
        /\ Len(ScopeOfStringToSign) = 4
        /\ CredentialOfAuthorization[4] = ScopeOfStringToSign[3]
        /\ CredentialOfAuthorization[4] = ServiceOfSigningKey

\* With the service execute-api configured the header says s3 and the
\* signature is made for execute-api.
CredentialSaysS3ForAnotherService ==
    /\ signed.tag = "Ok"
    /\ params.service = Some(<<101, 120, 101, 99, 117, 116, 101, 45, 97, 112, 105>>)
    /\ CredentialOfAuthorization[4] = <<115, 51>>
    /\ ScopeOfStringToSign[3] = params.service[1]
    /\ ServiceOfSigningKey = params.service[1]

\* Without a configured service the two agree on s3.
CredentialAgreesOnDefaultService ==
    /\ signed.tag = "Ok"
    /\ params.service = None
    /\ CredentialOfAuthorization[4] = ScopeOfStringToSign[3]

\* The SignedHeaders list of the Authorization header: what stands between
\* "SignedHeaders=" and the next ','.
SignedHeadersOfAuthorization ==
    split(split(AuthorizationText, 44)[2], 61)[2]

\* The canonical request that was hashed into the string to sign, in lines;
\* its signed-headers line is the one before the payload hash.
CanonicalRequestSigned == split(signed.string_to_sign.canonical_hash.of, 10)

SignedHeadersOfCanonicalRequest ==
    CanonicalRequestSigned[Len(CanonicalRequestSigned) - 1]

\* C23: the SignedHeaders list of the Authorization header is the
\* signed-headers line of the canonical request that was hashed and signed,
\* same names in the same order, for every set of headers of the caller and
\* every order of their insertion.
C23_SignedHeadersAreThoseSigned ==
    signed.tag = "Ok" =>
        SignedHeadersOfAuthorization = SignedHeadersOfCanonicalRequest

\* Without any header of the caller the Authorization header lists
\* x-amz-date;x-amz-content-sha256 and the canonical request
\* x-amz-content-sha256;x-amz-date.
SignedHeadersInInsertionOrder ==
    /\ signed.tag = "Ok"
    /\ request.headers = <<>>
    /\ SignedHeadersOfAuthorization = x_amz_date \o <<59>> \o x_amz_content_sha256
    /\ SignedHeadersOfCanonicalRequest = x_amz_content_sha256 \o <<59>> \o x_amz_date

\* The names are the same in both, as sets.
SignedHeadersHaveTheSameNames ==
    signed.tag = "Ok" =>
        LET listed == split(SignedHeadersOfAuthorization, 59)
            signed_names == split(SignedHeadersOfCanonicalRequest, 59)
        IN  {listed[i] : i \in 1..Len(listed)}
                = {signed_names[i] : i \in 1..Len(signed_names)}

-----------------------------------------------------------------------------
(* C24: what sign_request changes in the header map                        *)

\* The names sign_request writes.
WrittenNames == {x_amz_date, x_amz_content_sha256, authorization}

\* The positions of a name in a header map.
PositionsOf(headers, name) == {i \in 1..Len(headers) : headers[i].name = name}

\* The headers of a map but those of the written names, in their order.
OtherHeaders(headers) == SelectSeq(headers, LAMBDA h : h.name \notin WrittenNames)

\* The names of a list joined by ';'.
NamesListed(list) == LET names == split(list, 59) IN {names[i] : i \in 1..Len(names)}

\* The lines of the string to sign: algorithm, timestamp, scope.
StringToSignLines == split(signed.string_to_sign.text, 10)

\* C24: sign_request leaves every header of the caller other than
\* x-amz-date, x-amz-content-sha256 and authorization as it was; it sets
\* x-amz-content-sha256 to the payload_hash argument, which ends the
\* canonical request; it sets x-amz-date to the timestamp of the string to
\* sign, whose date part is in the credential scope; and it adds
\* authorization last, so that authorization is not among the signed headers
\* when the caller supplied none.
C24_SignRequestFrame ==
    signed.tag = "Ok" =>
        /\ OtherHeaders(signed.headers) = OtherHeaders(request.headers)
        /\ \E i \in 1..Len(signed.headers) :
              /\ PositionsOf(signed.headers, x_amz_content_sha256) = {i}
              /\ signed.headers[i].value = request.payload_hash
              /\ signed.headers[i].value = CanonicalRequestSigned[Len(CanonicalRequestSigned)]
        /\ \E i \in 1..Len(signed.headers) :
              /\ PositionsOf(signed.headers, x_amz_date) = {i}
              /\ signed.headers[i].value = StringToSignLines[2]
              /\ SubSeq(signed.headers[i].value, 1, 8) = ScopeOfStringToSign[1]
              /\ SubSeq(signed.headers[i].value, 1, 8) = CredentialOfAuthorization[2]
        /\ PositionsOf(request.headers, authorization) = {} =>
              /\ PositionsOf(signed.headers, authorization) = {Len(signed.headers)}
              /\ authorization \notin NamesListed(SignedHeadersOfAuthorization)
              /\ authorization \notin NamesListed(SignedHeadersOfCanonicalRequest)

\* A caller with a date of its own and a host: the host is left alone and
\* the date is the time of the signature.
C24_Witness ==
    /\ signed.tag = "Ok"
    /\ Len(request.headers) = 2
    /\ request.headers[1].name = x_amz_date
    /\ request.headers[1].value # request.now
    /\ signed.headers[1] = [name |-> x_amz_date, value |-> request.now]
    /\ signed.headers[2] = request.headers[2]
    /\ Len(signed.headers) = 4
    /\ signed.headers[4].name = authorization

\* The authorization header of a caller is signed, and replaced where it was.
CallerAuthorizationIsSigned ==
    /\ signed.tag = "Ok"
    /\ request.headers = CallerAuthorization
    /\ signed.headers[1].name = authorization
    /\ authorization \in NamesListed(SignedHeadersOfCanonicalRequest)

-----------------------------------------------------------------------------
(* C25: bytes after the declared body                                      *)

\* Both length fields are in the buffer, with the metadata between them, and
\* more bytes follow the second one than it declares.
ExtraBytes(b) ==
    /\ Len(b) >= 4
    /\ DeclaredMetaLen(b) <= RemainingAfterMetaLen(b)
    /\ RemainingAfterMetaLen(b) - DeclaredMetaLen(b) >= 4
    /\ DeclaredBodyLen(b) < RemainingAfterBodyLen(b)

\* Whenever CrateUploadData::new returns Ok the content has body_len bytes.
DecodedLengthIsDeclared ==
    upload.tag = "Ok" => Len(upload.content) = DeclaredBodyLen(buffer)

\* C25: whenever CrateUploadData::new returns Ok the length of the content
\* is the declared body_len; a buffer with bytes after the declared body
\* yields a value, Ok with the first body_len bytes or an error, and does
\* not abort the decoder.
C25_ExtraBytesYieldAValue ==
    /\ DecodedLengthIsDeclared
    /\ (upload.tag # "none" /\ ExtraBytes(buffer)) =>
          \/ upload.tag = "Err"
          \/ /\ upload.tag = "Ok"
             /\ upload.content =
                  [i \in 1..DeclaredBodyLen(buffer) |->
                      buffer[4 + DeclaredMetaLen(buffer) + 4 + i]]

\* A frame with a metadata document and one byte more than body_len
\* declares makes copy_from_slice panic.
ExtraByteAborts ==
    /\ upload.tag = "panic"
    /\ ExtraBytes(buffer)
    /\ serde_json_from_slice(metadata_slice(buffer, DeclaredMetaLen(buffer))).tag = "Ok"
    /\ RemainingAfterBodyLen(buffer) = DeclaredBodyLen(buffer) + 1

\* Bytes after the body of a frame whose metadata does not parse: an error.
ExtraBytesAfterBadMetadata ==
    /\ upload.tag = "Err"
    /\ ExtraBytes(buffer)

-----------------------------------------------------------------------------
(* C26: the lines of the git credentials file                              *)

\* The credential entry of a uri: login:token@ put in after the "//" of the
\* uri (after the two characters from its first '/' on).
EntryOf(address, login, token) ==
    LET k == CHOOSE j \in 1..Len(address) :
                 address[j] = 47 /\ \A i \in 1..(j - 1) : address[i] # 47
    IN  SubSeq(address, 1, k + 1) \o login \o <<58>> \o token \o <<64>>
        \o SubSeq(address, k + 2, Len(address))

\* The entries the file is to have: that of the self-service credential, then
\* one for each external registry in the order of the configuration.
EntriesOf(c) ==
    <<EntryOf(c.web_public_uri, c.self_service_login, c.self_service_token)>>
    \o [i \in 1..Len(c.external_registries) |->
            EntryOf(c.external_registries[i].index,
                    c.external_registries[i].login,
                    c.external_registries[i].token)]

\* C26: in the git credentials file written by write_auth_config every
\* credential entry, the self-service entry and one entry for each external
\* registry in the order of the configuration, is a line of its own that ends
\* with a newline, for any number of external registries.
C26_EveryEntryIsALine ==
    (configuration.tag = "Ok" /\ files.tag = "Ok") =>
        LET pieces == split(files.git_credentials, 10)
            entries == EntriesOf(configuration)
        IN  /\ Len(pieces) = Len(entries) + 1
            /\ pieces[Len(pieces)] = <<>>
            /\ \A i \in 1..Len(entries) : pieces[i] = entries[i]

\* With two external registries the file has the self-service line and one
\* more line, without a newline at its end, that holds both their entries.
TwoEntriesRunTogether ==
    /\ configuration.tag = "Ok"
    /\ files.tag = "Ok"
    /\ Len(configuration.external_registries) = 2
    /\ LET pieces == split(files.git_credentials, 10)
           entries == EntriesOf(configuration)
       IN  /\ Len(pieces) = 2
           /\ pieces[1] = entries[1]
           /\ pieces[2] = entries[2] \o entries[3]

\* Without an external registry the file is the self-service line.
OnlyTheSelfServiceLine ==
    /\ configuration.tag = "Ok"
    /\ files.tag = "Ok"
    /\ configuration.external_registries = <<>>
    /\ files.git_credentials = EntriesOf(configuration)[1] \o <<10>>

-----------------------------------------------------------------------------
(* C27: the admin check of a deactivated user                              *)

\* The rows of the deactivated users.
DeactivatedRows == {i \in 1..Len(RegistryUser) : ~RegistryUser[i].isActive}

\* C27: admin privilege is never granted to a deactivated user: for every
\* user with isActive = false get_is_admin does not report admin and
\* check_is_admin does not succeed, whatever the roles of the user are, and a
\* check_is_admin that has been made for the uid of such a user has failed.
C27_NoAdminForDeactivatedUser ==
    /\ \A i \in DeactivatedRows :
          /\ ~get_is_admin(RegistryUser, RegistryUser[i].id).value
          /\ check_is_admin(RegistryUser, RegistryUser[i].id).tag # "Ok"
    /\ access.op = "check_is_admin" =>
          \A i \in DeactivatedRows :
              RegistryUser[i].id = access.uid => access.result.tag # "Ok"

\* The admin check has succeeded for the uid of a deactivated user whose
\* roles have admin, and the user check refuses the same user.
DeactivatedAdminPasses ==
    /\ access.op = "check_is_admin"
    /\ access.result.tag = "Ok"
    /\ \E i \in DeactivatedRows :
          /\ RegistryUser[i].id = access.uid
          /\ HasAdminTag(RegistryUser[i].roles)
          /\ check_is_user(RegistryUser, RegistryUser[i].email).tag = "Err"

\* When the uid of the admin check is the one check_is_user returns for a
\* principal on the same table, the user the admin check passes is active.
AdminOfCheckedUserIsActive ==
    \A principal \in Emails :
        LET user == check_is_user(RegistryUser, principal) IN
        (user.tag = "Ok" /\ check_is_admin(RegistryUser, user.id).tag = "Ok") =>
            \E i \in 1..Len(RegistryUser) :
                /\ RegistryUser[i].id = user.id
                /\ RegistryUser[i].isActive
                /\ HasAdminTag(RegistryUser[i].roles)

=============================================================================
